---- MODULE Spec2Model ----
(***************************************************************************)
(* serde-save: the capturing serializer (src/src/imp.rs) and its entry     *)
(* points save / save_errors (src/src/lib.rs), as a state machine.         *)
(*                                                                         *)
(* One traversal is modelled: a producer (an implementation of             *)
(* serde::Serialize) is handed a Serializer and calls its methods.  An     *)
(* aggregate call returns a builder; the producer then calls the builder's *)
(* push methods, each of which hands a fresh Serializer to a child value,  *)
(* and finally end().  The stack holds the builders (and the newtype/some  *)
(* calls) whose child value is being serialized or whose producer is still *)
(* pushing.                                                                *)
(***************************************************************************)
EXTENDS Integers, Sequences, FiniteSets, TLC

VARIABLES
    serializer,   \* the Serializer under configuration / handed to the current value
    entry,        \* which entry point started the traversal
    stack,        \* builders and wrapper calls in progress, outermost first
    mode,         \* "config" | "ser" (a value holds `serializer`) | "bld" (a producer holds the top builder) | "done"
    ret,          \* what the last builder method returned to the producer holding the top builder
    result        \* what the entry point returned

vars == <<serializer, entry, stack, mode, ret, result>>

(***************************************************************************)
(* Bounds of the model.                                                    *)
(***************************************************************************)
MaxDepth == 2     \* builders / wrapper calls nested at once
MaxPush == 3      \* elements held by one buffer of a builder
MaxLen == 3       \* largest declared length or length hint
MaxNestedPush == 1 \* elements held by one buffer of a builder nested in another
MaxNestedLen == 1 \* largest declared length or length hint of a nested aggregate
MaxNodes == 6     \* values serialized in one traversal of a flat aggregate
MaxNested == 3    \* values serialized in one traversal that nests calls

(***************************************************************************)
(* Rust's Option and Result.                                               *)
(***************************************************************************)
None == [some |-> FALSE]
Some(x) == [some |-> TRUE, v |-> x]
Ok(x) == [ok |-> TRUE, v |-> x]
Err(e) == [ok |-> FALSE, e |-> e]
OkUnit == Ok(<<>>)

(***************************************************************************)
(* struct Error { msg, protocol } and serde::ser::Error::custom.           *)
(***************************************************************************)
Error(msg, protocol) == [msg |-> msg, protocol |-> protocol]
\* variant: custom marks the error as a protocol error
custom_protocol(msg) == Error(msg, TRUE)
custom(msg) == Error(msg, FALSE)

(***************************************************************************)
(* enum Save: the variants the traversal builds.                           *)
(***************************************************************************)
Variant(name, variant_index, variant) ==
    [name |-> name, variant_index |-> variant_index, variant |-> variant]
Save_Bool(v) == [k |-> "Bool", b |-> v]
\* the scalar leaves: integers in v, floats, characters and strings by their
\* text in s, byte buffers in bytes
Save_I8(v) == [k |-> "I8", v |-> v]
Save_I16(v) == [k |-> "I16", v |-> v]
Save_I32(v) == [k |-> "I32", v |-> v]
Save_I64(v) == [k |-> "I64", v |-> v]
Save_I128(v) == [k |-> "I128", v |-> v]
Save_U8(v) == [k |-> "U8", v |-> v]
Save_U16(v) == [k |-> "U16", v |-> v]
Save_U32(v) == [k |-> "U32", v |-> v]
Save_U64(v) == [k |-> "U64", v |-> v]
Save_U128(v) == [k |-> "U128", v |-> v]
Save_F32(v) == [k |-> "F32", s |-> v]
Save_F64(v) == [k |-> "F64", s |-> v]
Save_Char(v) == [k |-> "Char", s |-> v]
Save_String(v) == [k |-> "String", s |-> v]
Save_ByteArray(v) == [k |-> "ByteArray", bytes |-> v]
Save_UnitStruct(name) == [k |-> "UnitStruct", name |-> name]
Save_UnitVariant(variant) == [k |-> "UnitVariant", variant |-> variant]
Save_Unit == [k |-> "Unit"]
Save_Option(o) == [k |-> "Option", o |-> o]
Save_NewTypeStruct(name, value) == [k |-> "NewTypeStruct", name |-> name, value |-> value]
Save_NewTypeVariant(variant, value) ==
    [k |-> "NewTypeVariant", variant |-> variant, value |-> value]
Save_Seq(items) == [k |-> "Seq", items |-> items]
Save_Map(pairs) == [k |-> "Map", pairs |-> pairs]
Save_Tuple(items) == [k |-> "Tuple", items |-> items]
Save_TupleStruct(name, values) == [k |-> "TupleStruct", name |-> name, values |-> values]
Save_TupleVariant(variant, values) ==
    [k |-> "TupleVariant", variant |-> variant, values |-> values]
Save_Struct(name, fields) == [k |-> "Struct", name |-> name, fields |-> fields]
Save_StructVariant(variant, fields) ==
    [k |-> "StructVariant", variant |-> variant, fields |-> fields]
Save_Error(e) == [k |-> "Error", e |-> e]

\* Save::error(msg)
Save_error(msg) == Save_Error(custom(msg))

(***************************************************************************)
(* The producers' inputs.                                                  *)
(***************************************************************************)
\* scalar values a producer passes: zero and large values of each integer width
\* (the methods store the value as it is), floats and characters by their
\* literal, strings, byte buffers
I8Values == {-128, 0, 127}
I16Values == {-32768, 0, 32767}
I32Values == {-2147483647, 0, 2147483647}
I64Values == {0, 1}
I128Values == {0, 1}
U8Values == {0, 255}
U16Values == {0, 65535}
U32Values == {0, 2147483647}
U64Values == {0, 1}
U128Values == {0, 1}
F32Values == {"0.0", "NaN"}
F64Values == {"-1.5", "inf"}
CharValues == {"c"}
StringValues == {"", "s"}
ByteArrayValues == {<<>>, <<0, 255>>}
Messages == {"boom"}
TypeNames == {"S"}
FieldNames == {"a", "b", "c"}
Variants == {Variant("E", 0, "V")}

(***************************************************************************)
(* ErrorDiscipline::handle for ShortCircuit and Persist.                   *)
(***************************************************************************)
\* variants of handle with the two disciplines exchanged
ShortCircuit_handle_persisting(res) == Ok(IF res.ok THEN res.v ELSE Save_Error(res.e))
Persist_handle_short(res) == res
\* variant: Persist stores the error as a producer's error
Persist_handle_custom(res) == Ok(IF res.ok THEN res.v ELSE Save_Error(custom(res.e.msg)))
ShortCircuit_handle(res) == res
Persist_handle(res) == Ok(IF res.ok THEN res.v ELSE Save_Error(res.e))
handle(E, res) == IF E = "Persist" THEN Persist_handle(res) ELSE ShortCircuit_handle(res)

(***************************************************************************)
(* struct Config, struct Serializer and the configuration methods.         *)
(***************************************************************************)
Config(is_human_readable, protocol_errors, error_discipline) ==
    [is_human_readable |-> is_human_readable,
     protocol_errors |-> protocol_errors,
     error_discipline |-> error_discipline]
Serializer(config) == [config |-> config]
new == Serializer(Config(TRUE, TRUE, "ShortCircuit"))
Serializer_human_readable(self, is_human_readable) ==
    [self EXCEPT !.config.is_human_readable = is_human_readable]
Serializer_check_for_protocol_errors(self, check) ==
    [self EXCEPT !.config.protocol_errors = check]
\* variant: save_errors starts again from the default flags
Serializer_save_errors_default(self) == Serializer(Config(TRUE, TRUE, "Persist"))
Serializer_save_errors(self) ==
    Serializer(Config(self.config.is_human_readable, self.config.protocol_errors, "Persist"))

(***************************************************************************)
(* The builders.  `pending` is the position inside a push method: the slot *)
(* that waits for the child value's serialize() to return.                 *)
(***************************************************************************)
NoSlot == [slot |-> "none"]
ElementSlot == [slot |-> "element"]
KeySlot == [slot |-> "key"]
ValueSlot == [slot |-> "value"]
FieldSlot(key) == [slot |-> "field", key |-> key]

\* variant: a sequence builder created with the default configuration
SerializeSeq_default_config(config, expected_len, inner) ==
    [kind |-> "SerializeSeq", config |-> Config(TRUE, TRUE, config.error_discipline),
     expected_len |-> expected_len, inner |-> inner, pending |-> NoSlot]
SerializeSeq(config, expected_len, inner) ==
    [kind |-> "SerializeSeq", config |-> config, expected_len |-> expected_len,
     inner |-> inner, pending |-> NoSlot]
SerializeTuple(config, expected_len, inner) ==
    [kind |-> "SerializeTuple", config |-> config, expected_len |-> expected_len,
     inner |-> inner, pending |-> NoSlot]
SerializeTupleStruct(config, expected_len, name, values) ==
    [kind |-> "SerializeTupleStruct", config |-> config, expected_len |-> expected_len,
     name |-> name, values |-> values, pending |-> NoSlot]
SerializeTupleVariant(config, expected_len, variant, values) ==
    [kind |-> "SerializeTupleVariant", config |-> config, expected_len |-> expected_len,
     variant |-> variant, values |-> values, pending |-> NoSlot]
SerializeMap(config, expected_len, keys, values) ==
    [kind |-> "SerializeMap", config |-> config, expected_len |-> expected_len,
     keys |-> keys, values |-> values, pending |-> NoSlot]
SerializeStruct(config, expected_len, name, fields) ==
    [kind |-> "SerializeStruct", config |-> config, expected_len |-> expected_len,
     name |-> name, fields |-> fields, pending |-> NoSlot]
SerializeStructVariant(config, expected_len, variant, fields) ==
    [kind |-> "SerializeStructVariant", config |-> config, expected_len |-> expected_len,
     variant |-> variant, fields |-> fields, pending |-> NoSlot]

\* The calls serialize_some / serialize_newtype_struct / serialize_newtype_variant
\* while their inner value is being serialized.
SomeCall(config) == [kind |-> "serialize_some", config |-> config]
NewtypeStructCall(config, name) ==
    [kind |-> "serialize_newtype_struct", config |-> config, name |-> name]
NewtypeVariantCall(config, variant) ==
    [kind |-> "serialize_newtype_variant", config |-> config, variant |-> variant]

ElementKinds == {"SerializeSeq", "SerializeTuple"}
ValuesKinds == {"SerializeTupleStruct", "SerializeTupleVariant"}
StructKinds == {"SerializeStruct", "SerializeStructVariant"}
BuilderKinds == ElementKinds \cup ValuesKinds \cup StructKinds \cup {"SerializeMap"}
WrapperKinds == {"serialize_some", "serialize_newtype_struct", "serialize_newtype_variant"}

(***************************************************************************)
(* fn check_length: returns the Result and the vector as it leaves it.     *)
(***************************************************************************)
\* variant: only a shortfall is reported
check_length_shortfall(what, config, expected, pushing) ==
    IF config.protocol_errors
    THEN LET actual == Len(pushing) IN
         IF expected > actual
         THEN LET e == Error("protocol error: expected a " \o what \o " of length "
                              \o ToString(expected) \o ", got " \o ToString(actual), TRUE)
                  h == handle(config.error_discipline, Err(e))
              IN  IF h.ok THEN [res |-> OkUnit, pushing |-> Append(pushing, h.v)]
                          ELSE [res |-> h, pushing |-> pushing]
         ELSE [res |-> OkUnit, pushing |-> pushing]
    ELSE [res |-> OkUnit, pushing |-> pushing]

check_length(what, config, expected, pushing) ==
    IF config.protocol_errors
    THEN LET actual == Len(pushing) IN
         IF expected # actual
         THEN LET e == Error("protocol error: expected a " \o what \o " of length "
                              \o ToString(expected) \o ", got " \o ToString(actual), TRUE)
                  h == handle(config.error_discipline, Err(e))
              IN  IF h.ok THEN [res |-> OkUnit, pushing |-> Append(pushing, h.v)]
                          ELSE [res |-> h, pushing |-> pushing]
         ELSE [res |-> OkUnit, pushing |-> pushing]
    ELSE [res |-> OkUnit, pushing |-> pushing]

(***************************************************************************)
(* The push methods, from the point where value.serialize(..) has returned *)
(* `res`: E::handle(res)?, then the push.  Each returns what the method    *)
(* returns and the builder as it leaves it.                                *)
(***************************************************************************)
\* variant: a nested sequence or tuple is spliced into the enclosing buffer
push_inner_flat(self, res) ==
    LET h == handle(self.config.error_discipline, res) IN
    IF h.ok
    THEN [ret |-> OkUnit,
          self |-> [self EXCEPT !.inner =
                       IF h.v.k \in {"Seq", "Tuple"} THEN @ \o h.v.items ELSE Append(@, h.v)]]
    ELSE [ret |-> h, self |-> self]
\* variant: the newest element is put in front
push_inner_front(self, res) ==
    LET h == handle(self.config.error_discipline, res) IN
    IF h.ok THEN [ret |-> OkUnit, self |-> [self EXCEPT !.inner = <<h.v>> \o @]]
            ELSE [ret |-> h, self |-> self]
push_inner(self, res) ==
    LET h == handle(self.config.error_discipline, res) IN
    IF h.ok THEN [ret |-> OkUnit, self |-> [self EXCEPT !.inner = Append(@, h.v)]]
            ELSE [ret |-> h, self |-> self]
\* variant: a failed child leaves a unit in its place
push_values_placeholder(self, res) ==
    LET h == handle(self.config.error_discipline, res) IN
    IF h.ok THEN [ret |-> OkUnit, self |-> [self EXCEPT !.values = Append(@, h.v)]]
            ELSE [ret |-> h, self |-> [self EXCEPT !.values = Append(@, Save_Unit)]]
push_values(self, res) ==
    LET h == handle(self.config.error_discipline, res) IN
    IF h.ok THEN [ret |-> OkUnit, self |-> [self EXCEPT !.values = Append(@, h.v)]]
            ELSE [ret |-> h, self |-> self]
push_fields(self, key, res) ==
    LET h == handle(self.config.error_discipline, res) IN
    IF h.ok THEN [ret |-> OkUnit, self |-> [self EXCEPT !.fields = Append(@, <<key, Some(h.v)>>)]]
            ELSE [ret |-> h, self |-> self]

SerializeSeq_serialize_element(self, res) == push_inner(self, res)
SerializeTuple_serialize_element(self, res) == push_inner(self, res)
SerializeTupleStruct_serialize_field(self, res) == push_values(self, res)
SerializeTupleVariant_serialize_field(self, res) == push_values(self, res)
\* variant: a key is refused while the key before it has no value yet
SerializeMap_serialize_key_alternating(self, res) ==
    LET h == handle(self.config.error_discipline, res) IN
    IF h.ok /\ Len(self.keys) <= Len(self.values)
    THEN [ret |-> OkUnit, self |-> [self EXCEPT !.keys = Append(@, h.v)]]
    ELSE [ret |-> IF h.ok THEN Err(Error("protocol error: key without value", TRUE)) ELSE h,
          self |-> self]
SerializeMap_serialize_key(self, res) ==
    LET h == handle(self.config.error_discipline, res) IN
    IF h.ok THEN [ret |-> OkUnit, self |-> [self EXCEPT !.keys = Append(@, h.v)]]
            ELSE [ret |-> h, self |-> self]
SerializeMap_serialize_value(self, res) == push_values(self, res)
SerializeStruct_serialize_field(self, key, res) == push_fields(self, key, res)
SerializeStructVariant_serialize_field(self, key, res) == push_fields(self, key, res)
\* variant: a skipped field is recorded as a present, absent option
SerializeStruct_skip_field_present(self, key) ==
    [ret |-> OkUnit,
     self |-> [self EXCEPT !.fields = Append(@, <<key, Some(Save_Option(None))>>)]]
\* variant: a skipped field leaves no entry
SerializeStruct_skip_field_unrecorded(self, key) == [ret |-> OkUnit, self |-> self]
SerializeStruct_skip_field(self, key) ==
    [ret |-> OkUnit, self |-> [self EXCEPT !.fields = Append(@, <<key, None>>)]]
SerializeStructVariant_skip_field(self, key) ==
    [ret |-> OkUnit, self |-> [self EXCEPT !.fields = Append(@, <<key, None>>)]]

(***************************************************************************)
(* end() of the four element builders.                                     *)
(***************************************************************************)
\* variant: a missing hint counts as a hint of 0
SerializeSeq_end_zero_hint(self) ==
    LET c == check_length("sequence", self.config,
                          IF self.expected_len.some THEN self.expected_len.v ELSE 0,
                          self.inner)
    IN  IF c.res.ok THEN Ok(Save_Seq(c.pushing)) ELSE c.res
SerializeSeq_end(self) ==
    IF self.expected_len.some
    THEN LET c == check_length("sequence", self.config, self.expected_len.v, self.inner) IN
         IF c.res.ok THEN Ok(Save_Seq(c.pushing)) ELSE c.res
    ELSE Ok(Save_Seq(self.inner))
SerializeTuple_end(self) ==
    LET c == check_length("tuple", self.config, self.expected_len, self.inner) IN
    IF c.res.ok THEN Ok(Save_Tuple(c.pushing)) ELSE c.res
SerializeTupleStruct_end(self) ==
    LET c == check_length("tuple struct", self.config, self.expected_len, self.values) IN
    IF c.res.ok THEN Ok(Save_TupleStruct(self.name, c.pushing)) ELSE c.res
SerializeTupleVariant_end(self) ==
    LET c == check_length("tuple variant", self.config, self.expected_len, self.values) IN
    IF c.res.ok THEN Ok(Save_TupleVariant(self.variant, c.pushing)) ELSE c.res

(***************************************************************************)
(* SerializeMap::end: the zipping loop, one iteration per call.            *)
(***************************************************************************)
RECURSIVE SerializeMap_end_loop(_, _, _, _)
SerializeMap_end_loop(self, keys, values, map) ==
    LET n_keys == Len(self.keys)
        n_values == Len(self.values)
        E == self.config.error_discipline
        e == Error("protocol error: map has " \o ToString(n_keys) \o " keys and "
                   \o ToString(n_values) \o " values", TRUE)
        h == handle(E, Err(e))
    IN  IF keys = <<>> /\ values = <<>>
        THEN IF /\ self.expected_len.some
                /\ self.config.protocol_errors
                /\ self.expected_len.v # Len(map)
             THEN LET e2 == Error("protocol error: expected a map of length "
                                  \o ToString(self.expected_len.v) \o ", got "
                                  \o ToString(Len(map)), TRUE)
                      h2 == handle(E, Err(e2))
                  IN  IF h2.ok THEN Ok(Save_Map(Append(map, <<h2.v, h2.v>>))) ELSE h2
             ELSE Ok(Save_Map(map))
        ELSE IF keys # <<>> /\ values # <<>>
        THEN SerializeMap_end_loop(self, Tail(keys), Tail(values),
                                   Append(map, <<Head(keys), Head(values)>>))
        ELSE IF keys = <<>>
        THEN IF h.ok
             THEN SerializeMap_end_loop(self, keys, Tail(values),
                                        Append(map, <<h.v, Head(values)>>))
             ELSE h
        ELSE IF h.ok
             THEN SerializeMap_end_loop(self, Tail(keys), values,
                                        Append(map, <<Head(keys), h.v>>))
             ELSE h
\* variants: zipping stops at the shorter side; the hint is ignored; a repeated
\* key is reported
SerializeMap_end_shortest(self) ==
    LET n == IF Len(self.keys) <= Len(self.values) THEN Len(self.keys) ELSE Len(self.values)
    IN  SerializeMap_end_loop(self, SubSeq(self.keys, 1, n), SubSeq(self.values, 1, n), <<>>)
SerializeMap_end_unhinted(self) ==
    SerializeMap_end_loop([self EXCEPT !.expected_len = None], self.keys, self.values, <<>>)
SerializeMap_end_unique_keys(self) ==
    LET r == SerializeMap_end_loop(self, self.keys, self.values, <<>>)
        dup == \E i, j \in DOMAIN self.keys : i < j /\ self.keys[i] = self.keys[j]
        h == handle(self.config.error_discipline,
                    Err(Error("protocol error: map has duplicate keys", TRUE)))
    IN  IF self.config.protocol_errors /\ dup /\ r.ok
        THEN IF h.ok THEN Ok(Save_Map(Append(r.v.pairs, <<h.v, h.v>>))) ELSE h
        ELSE r
SerializeMap_end(self) == SerializeMap_end_loop(self, self.keys, self.values, <<>>)

(***************************************************************************)
(* fn check: the duplicate-name scan, then the length comparison.          *)
(***************************************************************************)
RECURSIVE join(_, _)
join(xs, sep) ==
    IF xs = <<>> THEN ""
    ELSE IF Len(xs) = 1 THEN xs[1]
    ELSE xs[1] \o sep \o join(Tail(xs), sep)

\* variant: only a name equal to the one just before it is reported
RECURSIVE check_scan_adjacent(_, _, _, _)
check_scan_adjacent(fields, i, seen, dups) ==
    IF i > Len(fields) THEN dups
    ELSE LET name == fields[i][1]
             inserted == name \notin seen
         IN  check_scan_adjacent(fields, i + 1, {name},
                                 IF ~inserted THEN Append(dups, name) ELSE dups)

\* variant: a repeated name is reported once, however often it repeats
RECURSIVE check_scan_once(_, _, _, _)
check_scan_once(fields, i, seen, dups) ==
    IF i > Len(fields) THEN dups
    ELSE LET name == fields[i][1]
             inserted == name \notin seen
             listed == \E j \in DOMAIN dups : dups[j] = name
         IN  check_scan_once(fields, i + 1, seen \cup {name},
                             IF ~inserted /\ ~listed THEN Append(dups, name) ELSE dups)

RECURSIVE check_scan(_, _, _, _)
check_scan(fields, i, seen, dups) ==
    IF i > Len(fields) THEN dups
    ELSE LET name == fields[i][1]
             inserted == name \notin seen
         IN  check_scan(fields, i + 1, seen \cup {name},
                        IF ~inserted THEN Append(dups, name) ELSE dups)

\* variant: the length comparison comes before the duplicate-name scan
check_length_first(what, config, expected_len, fields) ==
    IF config.protocol_errors
    THEN LET actual == Len(fields)
             e2 == Error("protocol error: expected a " \o what \o " of length "
                         \o ToString(expected_len) \o ", got " \o ToString(actual), TRUE)
             h2 == handle(config.error_discipline, Err(e2))
         IN  IF expected_len # actual /\ ~h2.ok THEN [res |-> h2, fields |-> fields]
             ELSE LET fields1 == IF expected_len # actual
                                 THEN Append(fields, <<"!error", Some(h2.v)>>)
                                 ELSE fields
                      dups == check_scan(fields, 1, {}, <<>>)
                      e1 == Error("protocol error: " \o what
                                  \o " has duplicate field names: " \o join(dups, ", "),
                                  TRUE)
                      h1 == handle(config.error_discipline, Err(e1))
                  IN  IF dups # <<>>
                      THEN IF h1.ok
                           THEN [res |-> OkUnit,
                                 fields |-> Append(fields1, <<"!error", Some(h1.v)>>)]
                           ELSE [res |-> h1, fields |-> fields1]
                      ELSE [res |-> OkUnit, fields |-> fields1]
    ELSE [res |-> OkUnit, fields |-> fields]

check(what, config, expected_len, fields) ==
    IF config.protocol_errors
    THEN LET dups == check_scan(fields, 1, {}, <<>>)
             e1 == Error("protocol error: " \o what \o " has duplicate field names: "
                         \o join(dups, ", "), TRUE)
             h1 == handle(config.error_discipline, Err(e1))
         IN  IF dups # <<>> /\ ~h1.ok THEN [res |-> h1, fields |-> fields]
             ELSE LET fields1 == IF dups # <<>>
                                 THEN Append(fields, <<"!error", Some(h1.v)>>)
                                 ELSE fields
                      actual == Len(fields1)
                      e2 == Error("protocol error: expected a " \o what \o " of length "
                                  \o ToString(expected_len) \o ", got " \o ToString(actual),
                                  TRUE)
                      h2 == handle(config.error_discipline, Err(e2))
                  IN  IF expected_len # actual
                      THEN IF h2.ok
                           THEN [res |-> OkUnit,
                                 fields |-> Append(fields1, <<"!error", Some(h2.v)>>)]
                           ELSE [res |-> h2, fields |-> fields1]
                      ELSE [res |-> OkUnit, fields |-> fields1]
    ELSE [res |-> OkUnit, fields |-> fields]

SerializeStruct_end(self) ==
    LET c == check("struct", self.config, self.expected_len, self.fields) IN
    IF c.res.ok THEN Ok(Save_Struct(self.name, c.fields)) ELSE c.res
\* variant: a struct variant is checked under a kind label of its own
SerializeStructVariant_end_labelled(self) ==
    LET c == check("struct variant", self.config, self.expected_len, self.fields) IN
    IF c.res.ok THEN Ok(Save_StructVariant(self.variant, c.fields)) ELSE c.res
SerializeStructVariant_end(self) ==
    LET c == check("struct", self.config, self.expected_len, self.fields) IN
    IF c.res.ok THEN Ok(Save_StructVariant(self.variant, c.fields)) ELSE c.res

(***************************************************************************)
(* The scalar methods: those the simple! macro generates, serialize_str,   *)
(* serialize_bytes, serialize_none, serialize_unit, serialize_unit_struct, *)
(* serialize_unit_variant.  Serializer defines no serialize_i128 and no    *)
(* serialize_u128: the calls reach the methods the serde::Serializer trait *)
(* provides, which fail.                                                   *)
(***************************************************************************)
Serializer_is_human_readable(self) == self.config.is_human_readable
Serializer_serialize_bool(self, v) == Ok(Save_Bool(v))
Serializer_serialize_i8(self, v) == Ok(Save_I8(v))
Serializer_serialize_i16(self, v) == Ok(Save_I16(v))
Serializer_serialize_i32(self, v) == Ok(Save_I32(v))
Serializer_serialize_i64(self, v) == Ok(Save_I64(v))
Serializer_serialize_u8(self, v) == Ok(Save_U8(v))
Serializer_serialize_u16(self, v) == Ok(Save_U16(v))
Serializer_serialize_u32(self, v) == Ok(Save_U32(v))
Serializer_serialize_u64(self, v) == Ok(Save_U64(v))
Serializer_serialize_f32(self, v) == Ok(Save_F32(v))
Serializer_serialize_f64(self, v) == Ok(Save_F64(v))
Serializer_serialize_char(self, v) == Ok(Save_Char(v))
Serializer_serialize_str(self, v) == Ok(Save_String(v))
Serializer_serialize_bytes(self, v) == Ok(Save_ByteArray(v))
Serializer_serialize_none(self) == Ok(Save_Option(None))
Serializer_serialize_unit(self) == Ok(Save_Unit)
Serializer_serialize_unit_struct(self, name) == Ok(Save_UnitStruct(name))
Serializer_serialize_unit_variant(self, variant) == Ok(Save_UnitVariant(variant))
Serializer_serialize_i128(self, v) == Err(custom("i128 is not supported"))
Serializer_serialize_u128(self, v) == Err(custom("u128 is not supported"))

(***************************************************************************)
(* serialize_some / serialize_newtype_struct / serialize_newtype_variant,  *)
(* from the point where value.serialize(self) has returned `res`.          *)
(***************************************************************************)
\* variant: the inner result is wrapped without handle
Serializer_serialize_some_unhandled(call, res) ==
    IF res.ok THEN Ok(Save_Option(Some(res.v))) ELSE res
Serializer_serialize_some(call, res) ==
    LET h == handle(call.config.error_discipline, res) IN
    IF h.ok THEN Ok(Save_Option(Some(h.v))) ELSE h
Serializer_serialize_newtype_struct(call, res) ==
    LET h == handle(call.config.error_discipline, res) IN
    IF h.ok THEN Ok(Save_NewTypeStruct(call.name, h.v)) ELSE h
Serializer_serialize_newtype_variant(call, res) ==
    LET h == handle(call.config.error_discipline, res) IN
    IF h.ok THEN Ok(Save_NewTypeVariant(call.variant, h.v)) ELSE h

(***************************************************************************)
(* The entry points, from the point where t.serialize(..) has returned.    *)
(***************************************************************************)
save_return(res) == res
\* variant: the root failure is reported as a protocol error
save_errors_return_protocol(res) ==
    IF res.ok THEN res.v ELSE Save_Error([res.e EXCEPT !.protocol = TRUE])
save_errors_return(res) == IF res.ok THEN res.v ELSE Save_Error(res.e)

NoResult == [k |-> "NoResult"]

(***************************************************************************)
(* A value's serialize() returns `res` to whoever called it: the push      *)
(* method of the builder on top of `stk`, a wrapper call (which returns in *)
(* turn, its producer handing the result on), or the entry point.          *)
(***************************************************************************)
Resume(self, res) ==
    LET out ==
          CASE self.kind = "SerializeSeq" -> SerializeSeq_serialize_element(self, res)
            [] self.kind = "SerializeTuple" -> SerializeTuple_serialize_element(self, res)
            [] self.kind = "SerializeTupleStruct" ->
                   SerializeTupleStruct_serialize_field(self, res)
            [] self.kind = "SerializeTupleVariant" ->
                   SerializeTupleVariant_serialize_field(self, res)
            [] self.kind = "SerializeMap" /\ self.pending = KeySlot ->
                   SerializeMap_serialize_key(self, res)
            [] self.kind = "SerializeMap" /\ self.pending = ValueSlot ->
                   SerializeMap_serialize_value(self, res)
            [] self.kind = "SerializeStruct" ->
                   SerializeStruct_serialize_field(self, self.pending.key, res)
            [] self.kind = "SerializeStructVariant" ->
                   SerializeStructVariant_serialize_field(self, self.pending.key, res)
    IN  [ret |-> out.ret, self |-> [out.self EXCEPT !.pending = NoSlot]]

WrapperReturn(call, res) ==
    CASE call.kind = "serialize_some" -> Serializer_serialize_some(call, res)
      [] call.kind = "serialize_newtype_struct" ->
             Serializer_serialize_newtype_struct(call, res)
      [] call.kind = "serialize_newtype_variant" ->
             Serializer_serialize_newtype_variant(call, res)

RECURSIVE Return(_, _, _)
Return(res, stk, ent) ==
    IF stk = <<>>
    THEN [stack |-> <<>>, mode |-> "done", ret |-> OkUnit,
          result |-> IF ent = "save_errors" THEN save_errors_return(res)
                     ELSE save_return(res)]
    ELSE LET top == stk[Len(stk)]
             rest == SubSeq(stk, 1, Len(stk) - 1)
         IN  IF top.kind \in WrapperKinds
             THEN Return(WrapperReturn(top, res), rest, ent)
             ELSE LET out == Resume(top, res) IN
                  [stack |-> Append(rest, out.self), mode |-> "bld",
                   ret |-> out.ret, result |-> NoResult]

(***************************************************************************)
(* The size of a traversal, for the bound on it.                           *)
(***************************************************************************)
RECURSIVE NodeSize(_), NodesSize(_), PairsSize(_), FieldsSize(_)
NodeSize(n) ==
    CASE n.k \in {"Seq", "Tuple"} -> 1 + NodesSize(n.items)
      [] n.k \in {"TupleStruct", "TupleVariant"} -> 1 + NodesSize(n.values)
      [] n.k = "Map" -> 1 + PairsSize(n.pairs)
      [] n.k \in {"Struct", "StructVariant"} -> 1 + FieldsSize(n.fields)
      [] n.k = "Option" -> IF n.o.some THEN 1 + NodeSize(n.o.v) ELSE 1
      [] n.k \in {"NewTypeStruct", "NewTypeVariant"} -> 1 + NodeSize(n.value)
      [] OTHER -> 1
NodesSize(ns) == IF ns = <<>> THEN 0 ELSE NodeSize(Head(ns)) + NodesSize(Tail(ns))
PairsSize(ps) ==
    IF ps = <<>> THEN 0
    ELSE NodeSize(Head(ps)[1]) + NodeSize(Head(ps)[2]) + PairsSize(Tail(ps))
FieldsSize(fs) ==
    IF fs = <<>> THEN 0
    ELSE (IF Head(fs)[2].some THEN NodeSize(Head(fs)[2].v) ELSE 1) + FieldsSize(Tail(fs))

FrameSize(f) ==
    CASE f.kind \in ElementKinds -> 1 + NodesSize(f.inner)
      [] f.kind \in ValuesKinds -> 1 + NodesSize(f.values)
      [] f.kind = "SerializeMap" -> 1 + NodesSize(f.keys) + NodesSize(f.values)
      [] f.kind \in StructKinds -> 1 + FieldsSize(f.fields)
      [] OTHER -> 1
RECURSIVE StackSize(_)
StackSize(stk) == IF stk = <<>> THEN 0 ELSE FrameSize(Head(stk)) + StackSize(Tail(stk))
Used == StackSize(stack) + (IF mode = "ser" THEN 1 ELSE 0)

\* the nodes a builder holds
FrameNodes(f) ==
    CASE f.kind \in ElementKinds -> {f.inner[i] : i \in DOMAIN f.inner}
      [] f.kind \in ValuesKinds -> {f.values[i] : i \in DOMAIN f.values}
      [] f.kind = "SerializeMap" ->
             {f.keys[i] : i \in DOMAIN f.keys} \cup {f.values[i] : i \in DOMAIN f.values}
      [] f.kind \in StructKinds ->
             {IF f.fields[i][2].some THEN f.fields[i][2].v ELSE Save_Bool(TRUE) :
                  i \in DOMAIN f.fields}
      [] OTHER -> {}
\* the traversal holds more than booleans and failures under its root builder
Nesting ==
    \/ Len(stack) >= 2
    \/ Len(stack) = 1 /\ stack[1].kind \in WrapperKinds
    \/ Len(stack) = 1 /\ \E n \in FrameNodes(stack[1]) : n.k \notin {"Bool", "Error"}
Budget == IF Nesting THEN MaxNested ELSE MaxNodes

Top == stack[Len(stack)]
Rest == SubSeq(stack, 1, Len(stack) - 1)

\* the lengths a producer declares, and the pushes it makes, at the current depth
Lens == 0..(IF stack = <<>> THEN MaxLen ELSE MaxNestedLen)
LenHints == {None} \cup {Some(n) : n \in Lens}
PushBound == IF Len(stack) = 1 THEN MaxPush ELSE MaxNestedPush

(***************************************************************************)
(* Init: Serializer::new() in the caller's hands.                          *)
(***************************************************************************)
Init ==
    /\ serializer = new
    /\ entry = "none"
    /\ stack = <<>>
    /\ mode = "config"
    /\ ret = OkUnit
    /\ result = NoResult

(***************************************************************************)
(* Configuration calls and entry points.                                   *)
(***************************************************************************)
human_readable ==
    /\ mode = "config"
    /\ \E b \in BOOLEAN : serializer' = Serializer_human_readable(serializer, b)
    /\ UNCHANGED <<entry, stack, mode, ret, result>>

check_for_protocol_errors ==
    /\ mode = "config"
    /\ \E b \in BOOLEAN : serializer' = Serializer_check_for_protocol_errors(serializer, b)
    /\ UNCHANGED <<entry, stack, mode, ret, result>>

save_errors_config ==
    /\ mode = "config"
    /\ serializer' = Serializer_save_errors(serializer)
    /\ UNCHANGED <<entry, stack, mode, ret, result>>

\* t.serialize(serializer) with the serializer as configured
serialize ==
    /\ mode = "config"
    /\ entry' = "serialize"
    /\ mode' = "ser"
    /\ UNCHANGED <<serializer, stack, ret, result>>

\* save(t), up to the call of t.serialize
save ==
    /\ mode = "config"
    /\ serializer' = new
    /\ entry' = "save"
    /\ mode' = "ser"
    /\ UNCHANGED <<stack, ret, result>>

\* save_errors(t), up to the call of t.serialize
save_errors ==
    /\ mode = "config"
    /\ serializer' = Serializer_save_errors(new)
    /\ entry' = "save_errors"
    /\ mode' = "ser"
    /\ UNCHANGED <<stack, ret, result>>

(***************************************************************************)
(* The value holding `serializer` makes its one call, or fails by itself.  *)
(***************************************************************************)
Deliver(res, stk) ==
    LET r == Return(res, stk, entry) IN
    /\ stack' = r.stack
    /\ mode' = r.mode
    /\ ret' = r.ret
    /\ result' = r.result
    /\ UNCHANGED <<serializer, entry>>

\* a builder may be opened here: at the root, or nested while the traversal is small
CanOpen ==
    /\ Len(stack) < MaxDepth
    /\ stack # <<>> => Used <= MaxNested

Open(frame) ==
    /\ stack' = Append(stack, frame)
    /\ ret' = OkUnit
    /\ UNCHANGED <<serializer, entry, result>>

serialize_bool ==
    /\ mode = "ser"
    /\ \E v \in BOOLEAN : Deliver(Serializer_serialize_bool(serializer, v), stack)

serialize_unit ==
    /\ mode = "ser"
    /\ Used <= MaxNested
    /\ Deliver(Serializer_serialize_unit(serializer), stack)

serialize_none ==
    /\ mode = "ser"
    /\ Used <= MaxNested
    /\ Deliver(Serializer_serialize_none(serializer), stack)

serialize_some ==
    /\ mode = "ser"
    /\ Len(stack) < MaxDepth
    /\ Used < MaxNested
    /\ Open(SomeCall(serializer.config))
    /\ UNCHANGED mode

serialize_newtype_struct ==
    /\ mode = "ser"
    /\ Len(stack) < MaxDepth
    /\ Used < MaxNested
    /\ \E name \in TypeNames : Open(NewtypeStructCall(serializer.config, name))
    /\ UNCHANGED mode

serialize_newtype_variant ==
    /\ mode = "ser"
    /\ Len(stack) < MaxDepth
    /\ Used < MaxNested
    /\ \E variant \in Variants : Open(NewtypeVariantCall(serializer.config, variant))
    /\ UNCHANGED mode

serialize_seq ==
    /\ mode = "ser"
    /\ CanOpen
    /\ \E len \in LenHints : Open(SerializeSeq(serializer.config, len, <<>>))
    /\ mode' = "bld"

serialize_tuple ==
    /\ mode = "ser"
    /\ CanOpen
    /\ \E len \in Lens : Open(SerializeTuple(serializer.config, len, <<>>))
    /\ mode' = "bld"

serialize_tuple_struct ==
    /\ mode = "ser"
    /\ CanOpen
    /\ \E name \in TypeNames, len \in Lens :
           Open(SerializeTupleStruct(serializer.config, len, name, <<>>))
    /\ mode' = "bld"

serialize_tuple_variant ==
    /\ mode = "ser"
    /\ CanOpen
    /\ \E variant \in Variants, len \in Lens :
           Open(SerializeTupleVariant(serializer.config, len, variant, <<>>))
    /\ mode' = "bld"

serialize_map ==
    /\ mode = "ser"
    /\ CanOpen
    /\ \E len \in LenHints : Open(SerializeMap(serializer.config, len, <<>>, <<>>))
    /\ mode' = "bld"

serialize_struct ==
    /\ mode = "ser"
    /\ CanOpen
    /\ \E name \in TypeNames, len \in Lens :
           Open(SerializeStruct(serializer.config, len, name, <<>>))
    /\ mode' = "bld"

serialize_struct_variant ==
    /\ mode = "ser"
    /\ CanOpen
    /\ \E variant \in Variants, len \in Lens :
           Open(SerializeStructVariant(serializer.config, len, variant, <<>>))
    /\ mode' = "bld"

\* the value's own Serialize::serialize returns Err(custom(msg))
producer_fails ==
    /\ mode = "ser"
    /\ \E msg \in Messages : Deliver(Err(custom(msg)), stack)

(***************************************************************************)
(* The other scalar calls a value can make with its serializer.            *)
(***************************************************************************)
serialize_i8 ==
    /\ mode = "ser"
    /\ \E v \in I8Values : Deliver(Serializer_serialize_i8(serializer, v), stack)

serialize_i16 ==
    /\ mode = "ser"
    /\ \E v \in I16Values : Deliver(Serializer_serialize_i16(serializer, v), stack)

serialize_i32 ==
    /\ mode = "ser"
    /\ \E v \in I32Values : Deliver(Serializer_serialize_i32(serializer, v), stack)

serialize_i64 ==
    /\ mode = "ser"
    /\ \E v \in I64Values : Deliver(Serializer_serialize_i64(serializer, v), stack)

serialize_i128 ==
    /\ mode = "ser"
    /\ \E v \in I128Values : Deliver(Serializer_serialize_i128(serializer, v), stack)

serialize_u8 ==
    /\ mode = "ser"
    /\ \E v \in U8Values : Deliver(Serializer_serialize_u8(serializer, v), stack)

serialize_u16 ==
    /\ mode = "ser"
    /\ \E v \in U16Values : Deliver(Serializer_serialize_u16(serializer, v), stack)

serialize_u32 ==
    /\ mode = "ser"
    /\ \E v \in U32Values : Deliver(Serializer_serialize_u32(serializer, v), stack)

serialize_u64 ==
    /\ mode = "ser"
    /\ \E v \in U64Values : Deliver(Serializer_serialize_u64(serializer, v), stack)

serialize_u128 ==
    /\ mode = "ser"
    /\ \E v \in U128Values : Deliver(Serializer_serialize_u128(serializer, v), stack)

serialize_f32 ==
    /\ mode = "ser"
    /\ \E v \in F32Values : Deliver(Serializer_serialize_f32(serializer, v), stack)

serialize_f64 ==
    /\ mode = "ser"
    /\ \E v \in F64Values : Deliver(Serializer_serialize_f64(serializer, v), stack)

serialize_char ==
    /\ mode = "ser"
    /\ \E v \in CharValues : Deliver(Serializer_serialize_char(serializer, v), stack)

serialize_str ==
    /\ mode = "ser"
    /\ \E v \in StringValues : Deliver(Serializer_serialize_str(serializer, v), stack)

serialize_bytes ==
    /\ mode = "ser"
    /\ \E v \in ByteArrayValues : Deliver(Serializer_serialize_bytes(serializer, v), stack)

serialize_unit_struct ==
    /\ mode = "ser"
    /\ \E name \in TypeNames : Deliver(Serializer_serialize_unit_struct(serializer, name), stack)

serialize_unit_variant ==
    /\ mode = "ser"
    /\ \E variant \in Variants :
           Deliver(Serializer_serialize_unit_variant(serializer, variant), stack)

(***************************************************************************)
(* The producer holding the top builder calls one of its methods.  A push  *)
(* method first hands Serializer { config: self.config } to the child.     *)
(***************************************************************************)
CallChild(slot) ==
    /\ Used < Budget
    /\ stack' = Append(Rest, [Top EXCEPT !.pending = slot])
    /\ serializer' = Serializer(Top.config)
    /\ mode' = "ser"
    /\ ret' = OkUnit
    /\ UNCHANGED <<entry, result>>

seq_serialize_element ==
    /\ mode = "bld" /\ Top.kind = "SerializeSeq"
    /\ Len(Top.inner) < PushBound
    /\ CallChild(ElementSlot)

seq_end ==
    /\ mode = "bld" /\ Top.kind = "SerializeSeq"
    /\ Deliver(SerializeSeq_end(Top), Rest)

tuple_serialize_element ==
    /\ mode = "bld" /\ Top.kind = "SerializeTuple"
    /\ Len(Top.inner) < PushBound
    /\ CallChild(ElementSlot)

tuple_end ==
    /\ mode = "bld" /\ Top.kind = "SerializeTuple"
    /\ Deliver(SerializeTuple_end(Top), Rest)

tuple_struct_serialize_field ==
    /\ mode = "bld" /\ Top.kind = "SerializeTupleStruct"
    /\ Len(Top.values) < PushBound
    /\ CallChild(ElementSlot)

tuple_struct_end ==
    /\ mode = "bld" /\ Top.kind = "SerializeTupleStruct"
    /\ Deliver(SerializeTupleStruct_end(Top), Rest)

tuple_variant_serialize_field ==
    /\ mode = "bld" /\ Top.kind = "SerializeTupleVariant"
    /\ Len(Top.values) < PushBound
    /\ CallChild(ElementSlot)

tuple_variant_end ==
    /\ mode = "bld" /\ Top.kind = "SerializeTupleVariant"
    /\ Deliver(SerializeTupleVariant_end(Top), Rest)

map_serialize_key ==
    /\ mode = "bld" /\ Top.kind = "SerializeMap"
    /\ Len(Top.keys) < PushBound
    /\ CallChild(KeySlot)

map_serialize_value ==
    /\ mode = "bld" /\ Top.kind = "SerializeMap"
    /\ Len(Top.values) < PushBound
    /\ CallChild(ValueSlot)

map_end ==
    /\ mode = "bld" /\ Top.kind = "SerializeMap"
    /\ Deliver(SerializeMap_end(Top), Rest)

struct_serialize_field ==
    /\ mode = "bld" /\ Top.kind = "SerializeStruct"
    /\ Len(Top.fields) < PushBound
    /\ \E key \in FieldNames : CallChild(FieldSlot(key))

struct_skip_field ==
    /\ mode = "bld" /\ Top.kind = "SerializeStruct"
    /\ Len(Top.fields) < PushBound
    /\ Used < Budget
    /\ \E key \in FieldNames :
         LET out == SerializeStruct_skip_field(Top, key) IN
         /\ stack' = Append(Rest, out.self)
         /\ ret' = out.ret
    /\ UNCHANGED <<serializer, entry, mode, result>>

struct_end ==
    /\ mode = "bld" /\ Top.kind = "SerializeStruct"
    /\ Deliver(SerializeStruct_end(Top), Rest)

struct_variant_serialize_field ==
    /\ mode = "bld" /\ Top.kind = "SerializeStructVariant"
    /\ Len(Top.fields) < PushBound
    /\ \E key \in FieldNames : CallChild(FieldSlot(key))

struct_variant_skip_field ==
    /\ mode = "bld" /\ Top.kind = "SerializeStructVariant"
    /\ Len(Top.fields) < PushBound
    /\ Used < Budget
    /\ \E key \in FieldNames :
         LET out == SerializeStructVariant_skip_field(Top, key) IN
         /\ stack' = Append(Rest, out.self)
         /\ ret' = out.ret
    /\ UNCHANGED <<serializer, entry, mode, result>>

struct_variant_end ==
    /\ mode = "bld" /\ Top.kind = "SerializeStructVariant"
    /\ Deliver(SerializeStructVariant_end(Top), Rest)

\* the producer returns the failure of its last push (the `?` of derived code),
\* dropping its builder
producer_propagates ==
    /\ mode = "bld"
    /\ ~ret.ok
    /\ Deliver(ret, Rest)

\* the producer drops its builder and fails with an error of its own
producer_abandons ==
    /\ mode = "bld"
    /\ \E msg \in Messages : Deliver(Err(custom(msg)), Rest)

Next ==
    \/ check_for_protocol_errors
    \/ save_errors_config
    \/ serialize
    \/ save
    \/ save_errors
    \/ serialize_bool
    \/ serialize_unit
    \/ serialize_none
    \/ serialize_some
    \/ serialize_newtype_struct
    \/ serialize_newtype_variant
    \/ serialize_seq
    \/ serialize_tuple
    \/ serialize_tuple_struct
    \/ serialize_tuple_variant
    \/ serialize_map
    \/ serialize_struct
    \/ serialize_struct_variant
    \/ producer_fails
    \/ seq_serialize_element
    \/ seq_end
    \/ tuple_serialize_element
    \/ tuple_end
    \/ tuple_struct_serialize_field
    \/ tuple_struct_end
    \/ tuple_variant_serialize_field
    \/ tuple_variant_end
    \/ map_serialize_key
    \/ map_serialize_value
    \/ map_end
    \/ struct_serialize_field
    \/ struct_skip_field
    \/ struct_end
    \/ struct_variant_serialize_field
    \/ struct_variant_skip_field
    \/ struct_variant_end
    \/ producer_propagates
    \/ producer_abandons

Spec == Init /\ [][Next]_vars

\* the same traversals, with the human-readable flag configurable as well
NextConfig == Next \/ human_readable
SpecConfig == Init /\ [][NextConfig]_vars

\* a value that makes one scalar call, under every configuration
NextScalars ==
    \/ human_readable
    \/ check_for_protocol_errors
    \/ save_errors_config
    \/ serialize
    \/ save
    \/ save_errors
    \/ serialize_bool
    \/ serialize_i8
    \/ serialize_i16
    \/ serialize_i32
    \/ serialize_i64
    \/ serialize_i128
    \/ serialize_u8
    \/ serialize_u16
    \/ serialize_u32
    \/ serialize_u64
    \/ serialize_u128
    \/ serialize_f32
    \/ serialize_f64
    \/ serialize_char
    \/ serialize_str
    \/ serialize_bytes
    \/ serialize_none
    \/ serialize_unit
    \/ serialize_unit_struct
    \/ serialize_unit_variant
SpecScalars == Init /\ [][NextScalars]_vars

(***************************************************************************)
(* Vocabulary of the properties.                                           *)
(***************************************************************************)
\* positions of the builders on the stack
Builders == {i \in DOMAIN stack : stack[i].kind \in BuilderKinds}
Persisting(f) == f.config.error_discipline = "Persist"
Checking(f) == f.config.protocol_errors

\* what end() returns for a builder
EndOf(f) ==
    CASE f.kind = "SerializeSeq" -> SerializeSeq_end(f)
      [] f.kind = "SerializeTuple" -> SerializeTuple_end(f)
      [] f.kind = "SerializeTupleStruct" -> SerializeTupleStruct_end(f)
      [] f.kind = "SerializeTupleVariant" -> SerializeTupleVariant_end(f)
      [] f.kind = "SerializeMap" -> SerializeMap_end(f)
      [] f.kind = "SerializeStruct" -> SerializeStruct_end(f)
      [] f.kind = "SerializeStructVariant" -> SerializeStructVariant_end(f)

\* the elements recorded by an element builder, and the list of the node it emits
Recorded(f) == IF f.kind \in ElementKinds THEN f.inner ELSE f.values
Emitted(n) == IF n.k \in {"Seq", "Tuple"} THEN n.items ELSE n.values
KindLabel(f) ==
    CASE f.kind = "SerializeSeq" -> "sequence"
      [] f.kind = "SerializeTuple" -> "tuple"
      [] f.kind = "SerializeTupleStruct" -> "tuple struct"
      [] f.kind = "SerializeTupleVariant" -> "tuple variant"
NodeKind(f) ==
    CASE f.kind = "SerializeSeq" -> "Seq"
      [] f.kind = "SerializeTuple" -> "Tuple"
      [] f.kind = "SerializeTupleStruct" -> "TupleStruct"
      [] f.kind = "SerializeTupleVariant" -> "TupleVariant"
\* the declared length of an element builder (a sequence's hint, when it has one)
HasDeclared(f) == f.kind = "SerializeSeq" => f.expected_len.some
Declared(f) == IF f.kind = "SerializeSeq" THEN f.expected_len.v ELSE f.expected_len

ProtocolError(msg) == Save_Error([msg |-> msg, protocol |-> TRUE])
ProducerError(msg) == Save_Error([msg |-> msg, protocol |-> FALSE])
LengthMessage(what, n, m) ==
    "protocol error: expected a " \o what \o " of length " \o ToString(n)
        \o ", got " \o ToString(m)

IsTree(x) == "k" \in DOMAIN x /\ x.k # "NoResult"

RECURSIVE ContainsError(_)
ContainsError(n) ==
    CASE n.k = "Error" -> TRUE
      [] n.k \in {"Seq", "Tuple"} -> \E i \in DOMAIN n.items : ContainsError(n.items[i])
      [] n.k \in {"TupleStruct", "TupleVariant"} ->
             \E i \in DOMAIN n.values : ContainsError(n.values[i])
      [] n.k = "Map" ->
             \E i \in DOMAIN n.pairs :
                 ContainsError(n.pairs[i][1]) \/ ContainsError(n.pairs[i][2])
      [] n.k \in {"Struct", "StructVariant"} ->
             \E i \in DOMAIN n.fields :
                 n.fields[i][2].some /\ ContainsError(n.fields[i][2].v)
      [] n.k = "Option" -> n.o.some /\ ContainsError(n.o.v)
      [] n.k \in {"NewTypeStruct", "NewTypeVariant"} -> ContainsError(n.value)
      [] OTHER -> FALSE

(***************************************************************************)
(* C1.  A struct field whose value fails with message m.  Under Persist    *)
(* the push succeeds and records (name, Some(Error{m, not protocol}))      *)
(* after the fields already recorded, the pushes of the sibling fields     *)
(* record their values as usual, end() emits a Struct that starts with the *)
(* recorded fields, and save_errors returns that Struct.  Under            *)
(* ShortCircuit the push returns Err{m, not protocol} and records nothing, *)
(* and when the producer hands that failure on, it is what the entry point *)
(* returns.                                                                *)
(***************************************************************************)
C1_FieldFails ==
    \A msg \in Messages :
        (/\ mode = "ser" /\ stack # <<>> /\ Top.kind = "SerializeStruct"
         /\ Deliver(Err(custom(msg)), stack))
        => /\ mode' = "bld"
           /\ IF Persisting(Top)
              THEN /\ ret' = OkUnit
                   /\ stack' = Append(Rest,
                          [Top EXCEPT !.fields = Append(@, <<Top.pending.key,
                                                            Some(ProducerError(msg))>>),
                                      !.pending = NoSlot])
              ELSE /\ ret' = Err([msg |-> msg, protocol |-> FALSE])
                   /\ stack' = Append(Rest, [Top EXCEPT !.pending = NoSlot])

C1_SiblingCaptured ==
    \A v \in BOOLEAN :
        (/\ mode = "ser" /\ stack # <<>> /\ Top.kind = "SerializeStruct"
         /\ Deliver(Ok(Save_Bool(v)), stack))
        => /\ mode' = "bld"
           /\ ret' = OkUnit
           /\ stack' = Append(Rest,
                  [Top EXCEPT !.fields = Append(@, <<Top.pending.key, Some(Save_Bool(v))>>),
                              !.pending = NoSlot])

C1_Propagated ==
    (/\ mode = "bld" /\ Len(stack) = 1 /\ Top.kind = "SerializeStruct"
     /\ ~ret.ok
     /\ Deliver(ret, Rest))
    => /\ mode' = "done"
       /\ entry = "save" => result' = ret

C1_Finished ==
    (/\ mode = "bld" /\ Len(stack) = 1 /\ Top.kind = "SerializeStruct"
     /\ entry = "save_errors"
     /\ struct_end)
    => /\ mode' = "done"
       /\ result'.k = "Struct"
       /\ result'.name = Top.name
       /\ SubSeq(result'.fields, 1, Len(Top.fields)) = Top.fields

C1_StructField == [][C1_FieldFails /\ C1_SiblingCaptured /\ C1_Propagated /\ C1_Finished]_vars

C1_Witness ==
    /\ mode = "done"
    /\ entry = "save_errors"
    /\ result = Save_Struct("S", << <<"a", Some(Save_Bool(TRUE))>>,
                                    <<"b", Some(ProducerError("boom"))>>,
                                    <<"c", Some(Save_Bool(FALSE))>> >>)

(***************************************************************************)
(* C2.  save_errors never fails: no builder method returns a failure to    *)
(* the producer, what it returns is a tree, and when the root value's own  *)
(* serialization fails with e (before any call, or dropping its builder)   *)
(* the tree returned is Error(e).                                          *)
(***************************************************************************)
C2_Tree ==
    entry = "save_errors" =>
        /\ ret.ok
        /\ mode = "done" => IsTree(result)

C2_RootFails ==
    \A msg \in Messages :
        (/\ entry = "save_errors"
         /\ \/ mode = "ser" /\ stack = <<>> /\ Deliver(Err(custom(msg)), stack)
            \/ mode = "bld" /\ Len(stack) = 1 /\ Deliver(Err(custom(msg)), Rest))
        => /\ mode' = "done"
           /\ result' = ProducerError(msg)

C2_SaveErrorsNeverFails == []C2_Tree /\ [][C2_RootFails]_vars

C2_Witness ==
    /\ mode = "done"
    /\ entry = "save_errors"
    /\ result = ProducerError("boom")

(***************************************************************************)
(* C3.  Under ShortCircuit no Error node exists at any depth: not in a     *)
(* builder's buffers, not in the tree a builder's end() returns as Ok, not *)
(* in the tree the entry point returns as Ok.                              *)
(***************************************************************************)
C3_NoErrorNode ==
    /\ \A i \in Builders : LET f == stack[i] IN
           ~Persisting(f) =>
               /\ \A n \in FrameNodes(f) : ~ContainsError(n)
               /\ EndOf(f).ok => ~ContainsError(EndOf(f).v)
    /\ (/\ mode = "done"
        /\ serializer.config.error_discipline = "ShortCircuit"
        /\ result.ok)
       => ~ContainsError(result.v)

\* a nested builder's end() failed with a protocol error and the push of the
\* enclosing builder, which already holds an element, returned it
C3_Witness ==
    /\ mode = "bld"
    /\ ~Persisting(Top)
    /\ ~ret.ok
    /\ ret.e.protocol
    /\ FrameNodes(Top) # {}

(***************************************************************************)
(* C4.  Checking on, Persist: end() of a sequence with length hint N, a    *)
(* tuple, a tuple struct or a tuple variant declared with length N, holding*)
(* M elements, emits the M elements followed, when M # N, by exactly one   *)
(* Error "protocol error: expected a <kind> of length N, got M" that is a  *)
(* protocol error; when M = N it emits the M elements alone.               *)
(***************************************************************************)
C4_LengthMismatch ==
    \A i \in Builders : LET f == stack[i] IN
        (/\ f.kind \in ElementKinds \cup ValuesKinds
         /\ Checking(f) /\ Persisting(f) /\ HasDeclared(f))
        => LET N == Declared(f)
               M == Len(Recorded(f))
               r == EndOf(f)
           IN  /\ r.ok
               /\ r.v.k = NodeKind(f)
               /\ Emitted(r.v) =
                      IF M # N
                      THEN Append(Recorded(f),
                                  ProtocolError(LengthMessage(KindLabel(f), N, M)))
                      ELSE Recorded(f)
               /\ (f.kind = "SerializeSeq" /\ N = 3 /\ M = 2) =>
                      Emitted(r.v)[3] = ProtocolError(
                          "protocol error: expected a sequence of length 3, got 2")

C4_Witness ==
    /\ mode = "done"
    /\ entry = "save_errors"
    /\ result = Save_Seq(<<Save_Bool(TRUE), Save_Bool(FALSE),
                           ProtocolError(
                               "protocol error: expected a sequence of length 3, got 2")>>)

(***************************************************************************)
(* C5.  end() of a sequence started without a length hint emits exactly    *)
(* the pushed elements, whatever the configuration; with checking on,      *)
(* end() of a tuple, tuple struct or tuple variant emits exactly the       *)
(* pushed elements if and only if their number is the declared length.     *)
(***************************************************************************)
C5_NoHintNoCheck ==
    \A i \in Builders : LET f == stack[i] IN
        /\ (f.kind = "SerializeSeq" /\ ~f.expected_len.some)
           => SerializeSeq_end(f) = Ok(Save_Seq(f.inner))
        /\ (f.kind \in {"SerializeTuple", "SerializeTupleStruct", "SerializeTupleVariant"}
            /\ Checking(f))
           => LET r == EndOf(f) IN
              (r.ok /\ Emitted(r.v) = Recorded(f)) <=> (Len(Recorded(f)) = f.expected_len)

C5_Witness ==
    /\ mode = "bld"
    /\ Top.kind = "SerializeSeq"
    /\ Top.expected_len = None
    /\ Checking(Top)
    /\ Top.inner = <<Save_Bool(TRUE), Save_Bool(FALSE), Save_Bool(TRUE)>>

(***************************************************************************)
(* Struct builders: the entries end() adds after the recorded ones.        *)
(***************************************************************************)
Synthetic(f) ==
    LET emitted == EndOf(f).v.fields IN
    SubSeq(emitted, Len(f.fields) + 1, Len(emitted))

\* the names recorded at a position where the name already occurs earlier, in order
RECURSIVE RepeatedFrom(_, _)
RepeatedFrom(fields, i) ==
    IF i > Len(fields) THEN <<>>
    ELSE (IF \E j \in 1..(i - 1) : fields[j][1] = fields[i][1]
          THEN <<fields[i][1]>> ELSE <<>>) \o RepeatedFrom(fields, i + 1)

RECURSIVE CommaList(_)
CommaList(names) ==
    IF Len(names) = 1 THEN names[1] ELSE names[1] \o ", " \o CommaList(Tail(names))

DuplicateEntry(f) ==
    <<"!error",
      Some(ProtocolError("protocol error: struct has duplicate field names: "
                         \o CommaList(RepeatedFrom(f.fields, 1))))>>

IsLengthEntry(field) ==
    /\ field[1] = "!error"
    /\ field[2].some
    /\ field[2].v.k = "Error"
    /\ field[2].v.e.protocol
    /\ \E n \in 0..(MaxLen + 1), m \in 0..(MaxPush + 2) :
           field[2].v.e.msg = LengthMessage("struct", n, m)

(***************************************************************************)
(* C6.  Checking on, Persist: when a field name occurs twice or more among *)
(* the entries recorded by a struct or struct-variant builder, end() adds, *)
(* right after the recorded entries, exactly one entry "!error" whose      *)
(* value is the protocol error "... duplicate field names: <the repeated   *)
(* names>"; when no name repeats it adds no such entry.  (Any other entry  *)
(* it adds is a length entry.)                                             *)
(***************************************************************************)
C6_DuplicateNames ==
    \A i \in Builders : LET f == stack[i] IN
        (f.kind \in StructKinds /\ Checking(f) /\ Persisting(f))
        => LET r == EndOf(f)
               syn == Synthetic(f)
               reps == RepeatedFrom(f.fields, 1)
           IN  /\ r.ok
               /\ SubSeq(r.v.fields, 1, Len(f.fields)) = f.fields
               /\ IF reps # <<>>
                  THEN /\ Len(syn) \in {1, 2}
                       /\ syn[1] = DuplicateEntry(f)
                       /\ \A j \in 2..Len(syn) : IsLengthEntry(syn[j])
                  ELSE /\ Len(syn) \in {0, 1}
                       /\ \A j \in 1..Len(syn) : IsLengthEntry(syn[j])
               /\ (Len(f.fields) = 2 /\ f.fields[1][1] = "a" /\ f.fields[2][1] = "a")
                  => syn[1][2].v.e.msg = "protocol error: struct has duplicate field names: a"

C6_Witness ==
    /\ mode = "done"
    /\ entry = "save_errors"
    /\ result.k = "Struct"
    /\ Len(result.fields) >= 3
    /\ result.fields[1] = <<"a", Some(Save_Bool(TRUE))>>
    /\ result.fields[2] = <<"a", Some(Save_Bool(FALSE))>>
    /\ result.fields[3] =
           <<"!error",
             Some(ProtocolError("protocol error: struct has duplicate field names: a"))>>

(***************************************************************************)
(* C7.  Checking on, Persist: end() of a struct or struct-variant builder  *)
(* adds a length entry if and only if the number of entries recorded by    *)
(* push_field / skip_field differs from the declared length, whether or    *)
(* not the duplicate-name entry was added.                                 *)
(***************************************************************************)
C7_LengthIndependent ==
    \A i \in Builders : LET f == stack[i] IN
        (f.kind \in StructKinds /\ Checking(f) /\ Persisting(f))
        => ((\E j \in DOMAIN Synthetic(f) : IsLengthEntry(Synthetic(f)[j]))
            <=> Len(f.fields) # f.expected_len)

(***************************************************************************)
(* Map builders.                                                           *)
(***************************************************************************)
Max(a, b) == IF a >= b THEN a ELSE b
Min(a, b) == IF a <= b THEN a ELSE b
JaggedError(K, V) ==
    ProtocolError("protocol error: map has " \o ToString(K) \o " keys and "
                  \o ToString(V) \o " values")
MapLengthError(N, P) ==
    ProtocolError("protocol error: expected a map of length " \o ToString(N)
                  \o ", got " \o ToString(P))

C9_MapLengthHint ==
    \A i \in Builders : LET f == stack[i] IN
        (f.kind = "SerializeMap" /\ Persisting(f))
        => LET K == Len(f.keys)
               V == Len(f.values)
               P == Max(K, V)
               r == SerializeMap_end(f)
           IN  /\ r.ok
               /\ \A j \in 1..Min(K, V) : r.v.pairs[j] = <<f.keys[j], f.values[j]>>
               /\ ~f.expected_len.some => Len(r.v.pairs) = P
               /\ (f.expected_len.some /\ Checking(f))
                  => LET N == f.expected_len.v IN
                     IF P # N
                     THEN /\ Len(r.v.pairs) = P + 1
                          /\ r.v.pairs[P + 1] = <<MapLengthError(N, P), MapLengthError(N, P)>>
                     ELSE Len(r.v.pairs) = P

C9_Witness ==
    /\ mode = "done"
    /\ entry = "save_errors"
    /\ result = Save_Map(<< <<Save_Bool(TRUE), Save_Bool(FALSE)>>,
                            <<ProtocolError("protocol error: map has 1 keys and 2 values"),
                              Save_Bool(TRUE)>>,
                            <<ProtocolError("protocol error: expected a map of length 3, got 2"),
                              ProtocolError("protocol error: expected a map of length 3, got 2")>> >>)

(***************************************************************************)
(* C10.  Checking on, either discipline: end() of a map builder holding as *)
(* many keys as values (and as many pairs as its hint, when it has one)    *)
(* returns Ok with every (key, value) pair in push order and nothing else, *)
(* whether or not a key occurs several times.                              *)
(***************************************************************************)
C10_DuplicateKeys ==
    \A i \in Builders : LET f == stack[i] IN
        (/\ f.kind = "SerializeMap" /\ Checking(f)
         /\ Len(f.keys) = Len(f.values)
         /\ f.expected_len.some => f.expected_len.v = Len(f.keys))
        => SerializeMap_end(f) =
               Ok(Save_Map([j \in 1..Len(f.keys) |-> <<f.keys[j], f.values[j]>>]))

C10_Witness ==
    /\ mode = "done"
    /\ entry = "save"
    /\ result = Ok(Save_Map(<< <<Save_Bool(TRUE), Save_Bool(TRUE)>>,
                               <<Save_Bool(TRUE), Save_Bool(FALSE)>> >>))

(***************************************************************************)
(* C11.  skip_field(name) on a struct or struct-variant builder serializes *)
(* no value, returns Ok and appends (name, None) after the entries already *)
(* recorded; serialize_field(name, v) with v serializing to an absent      *)
(* option appends (name, Some(Option(None))); the two entries differ, and  *)
(* end() emits both as recorded.                                           *)
(***************************************************************************)
C11_Skipped ==
    (struct_skip_field \/ struct_variant_skip_field)
    => /\ mode' = "bld"
       /\ ret' = OkUnit
       /\ serializer' = serializer
       /\ \E key \in FieldNames :
              stack' = Append(Rest, [Top EXCEPT !.fields = Append(@, <<key, None>>)])

C11_AbsentOption ==
    (/\ mode = "ser" /\ stack # <<>> /\ Top.kind \in StructKinds
     /\ Deliver(Ok(Save_Option(None)), stack))
    => /\ ret' = OkUnit
       /\ stack' = Append(Rest,
              [Top EXCEPT !.fields = Append(@, <<Top.pending.key,
                                                Some(Save_Option(None))>>),
                          !.pending = NoSlot])
       /\ <<Top.pending.key, None>> # <<Top.pending.key, Some(Save_Option(None))>>

C11_Emitted ==
    \A i \in Builders : LET f == stack[i] IN
        (f.kind \in StructKinds /\ EndOf(f).ok)
        => SubSeq(EndOf(f).v.fields, 1, Len(f.fields)) = f.fields

C11_SkipField == []C11_Emitted /\ [][C11_Skipped /\ C11_AbsentOption]_vars

C11_Witness ==
    /\ mode = "done"
    /\ entry = "save"
    /\ result = Ok(Save_Struct("S", << <<"a", None>>,
                                       <<"b", Some(Save_Option(None))>> >>))

(***************************************************************************)
(* C12.  Checking off: end() of every builder, whatever was pushed,        *)
(* succeeds under either discipline and emits the aggregate of exactly the *)
(* recorded elements: the element builders their elements, the struct      *)
(* builders their entries, a map builder only pairs made of recorded keys  *)
(* and recorded values (no synthesized Error node).                        *)
(***************************************************************************)
C12_CheckingDisabled ==
    \A i \in Builders : LET f == stack[i] IN
        ~Checking(f)
        => LET r == EndOf(f) IN
           /\ r.ok
           /\ CASE f.kind \in ElementKinds \cup ValuesKinds -> Emitted(r.v) = Recorded(f)
                [] f.kind \in StructKinds -> r.v.fields = f.fields
                [] f.kind = "SerializeMap" ->
                       \A j \in DOMAIN r.v.pairs :
                           /\ \E a \in DOMAIN f.keys : f.keys[a] = r.v.pairs[j][1]
                           /\ \E b \in DOMAIN f.values : f.values[b] = r.v.pairs[j][2]

(***************************************************************************)
(* C13.  Every scalar method succeeds for every value and returns the leaf *)
(* of the matching kind holding that value, under either discipline: bool, *)
(* i8 .. i128, u8 .. u128, f32, f64, char, string, bytes, unit; so a value *)
(* that makes one scalar call is always captured.                          *)
(***************************************************************************)
C13_ScalarsTotal ==
    /\ mode = "ser" =>
       /\ \A v \in BOOLEAN : Serializer_serialize_bool(serializer, v) = Ok(Save_Bool(v))
       /\ \A v \in I8Values : Serializer_serialize_i8(serializer, v) = Ok(Save_I8(v))
       /\ \A v \in I16Values : Serializer_serialize_i16(serializer, v) = Ok(Save_I16(v))
       /\ \A v \in I32Values : Serializer_serialize_i32(serializer, v) = Ok(Save_I32(v))
       /\ \A v \in I64Values : Serializer_serialize_i64(serializer, v) = Ok(Save_I64(v))
       /\ \A v \in I128Values : Serializer_serialize_i128(serializer, v) = Ok(Save_I128(v))
       /\ \A v \in U8Values : Serializer_serialize_u8(serializer, v) = Ok(Save_U8(v))
       /\ \A v \in U16Values : Serializer_serialize_u16(serializer, v) = Ok(Save_U16(v))
       /\ \A v \in U32Values : Serializer_serialize_u32(serializer, v) = Ok(Save_U32(v))
       /\ \A v \in U64Values : Serializer_serialize_u64(serializer, v) = Ok(Save_U64(v))
       /\ \A v \in U128Values : Serializer_serialize_u128(serializer, v) = Ok(Save_U128(v))
       /\ \A v \in F32Values : Serializer_serialize_f32(serializer, v) = Ok(Save_F32(v))
       /\ \A v \in F64Values : Serializer_serialize_f64(serializer, v) = Ok(Save_F64(v))
       /\ \A v \in CharValues : Serializer_serialize_char(serializer, v) = Ok(Save_Char(v))
       /\ \A v \in StringValues : Serializer_serialize_str(serializer, v) = Ok(Save_String(v))
       /\ \A v \in ByteArrayValues :
              Serializer_serialize_bytes(serializer, v) = Ok(Save_ByteArray(v))
       /\ Serializer_serialize_unit(serializer) = Ok(Save_Unit)
    /\ mode = "done" => IF entry = "save_errors" THEN result.k # "Error" ELSE result.ok

(***************************************************************************)
(* impl Serialize for Save, run against the capturing serializer.          *)
(* Save_serialize(self, ser) is what self.serialize(ser) returns, and the  *)
(* calls it makes on the serializer `ser` and on the builders it obtains:  *)
(* <<depth, method, arguments..>>, with depth 0 for the calls of           *)
(* self's own arm.  Every call is followed by `?`.                         *)
(***************************************************************************)
Call0(method) == <<0, method>>
Call1(method, a) == <<0, method, a>>
Deeper(calls) == [i \in DOMAIN calls |-> [calls[i] EXCEPT ![1] = @ + 1]]

\* variant: the error is written with its Debug form
Error_fmt_debug(e) == "Error { msg: " \o e.msg \o " }"
\* Display for Error, as Error::custom(e) reads it
Error_fmt(e) == e.msg

\* the builder an aggregate arm obtains, and the call that obtains it
Save_serialize_start(self, config) ==
    CASE self.k = "Seq" ->
             [builder |-> SerializeSeq(config, Some(Len(self.items)), <<>>),
              call |-> Call1("serialize_seq", Some(Len(self.items)))]
      [] self.k = "Map" ->
             [builder |-> SerializeMap(config, Some(Len(self.pairs)), <<>>, <<>>),
              call |-> Call1("serialize_map", Some(Len(self.pairs)))]
      [] self.k = "Tuple" ->
             [builder |-> SerializeTuple(config, Len(self.items), <<>>),
              call |-> Call1("serialize_tuple", Len(self.items))]
      [] self.k = "TupleStruct" ->
             [builder |-> SerializeTupleStruct(config, Len(self.values), self.name, <<>>),
              call |-> <<0, "serialize_tuple_struct", self.name, Len(self.values)>>]
      [] self.k = "TupleVariant" ->
             [builder |-> SerializeTupleVariant(config, Len(self.values), self.variant, <<>>),
              call |-> <<0, "serialize_tuple_variant", self.variant, Len(self.values)>>]
      [] self.k = "Struct" ->
             [builder |-> SerializeStruct(config, Len(self.fields), self.name, <<>>),
              call |-> <<0, "serialize_struct", self.name, Len(self.fields)>>]
      [] self.k = "StructVariant" ->
             [builder |-> SerializeStructVariant(config, Len(self.fields), self.variant, <<>>),
              call |-> <<0, "serialize_struct_variant", self.variant, Len(self.fields)>>]

\* the body of an aggregate arm's loop, one entry per builder call
RECURSIVE Save_serialize_entries(_)
Save_serialize_entries(pairs) ==
    IF pairs = <<>> THEN <<>>
    ELSE << [slot |-> KeySlot, value |-> Head(pairs)[1]],
            [slot |-> ValueSlot, value |-> Head(pairs)[2]] >>
         \o Save_serialize_entries(Tail(pairs))
Save_serialize_steps(self) ==
    CASE self.k \in {"Seq", "Tuple"} ->
             [i \in DOMAIN self.items |-> [slot |-> ElementSlot, value |-> self.items[i]]]
      [] self.k \in {"TupleStruct", "TupleVariant"} ->
             [i \in DOMAIN self.values |-> [slot |-> ElementSlot, value |-> self.values[i]]]
      [] self.k = "Map" -> Save_serialize_entries(self.pairs)
      [] self.k \in {"Struct", "StructVariant"} ->
             [i \in DOMAIN self.fields |->
                 IF self.fields[i][2].some
                 THEN [slot |-> FieldSlot(self.fields[i][1]), value |-> self.fields[i][2].v]
                 ELSE [skip |-> self.fields[i][1]]]

Save_serialize_push_call(builder, slot) ==
    CASE builder.kind \in ElementKinds -> Call0("serialize_element")
      [] builder.kind \in ValuesKinds -> Call0("serialize_field")
      [] builder.kind = "SerializeMap" /\ slot = KeySlot -> Call0("serialize_key")
      [] builder.kind = "SerializeMap" /\ slot = ValueSlot -> Call0("serialize_value")
      [] builder.kind \in StructKinds -> Call1("serialize_field", slot.key)

RECURSIVE Save_serialize(_, _), Save_serialize_loop(_, _, _)
Save_serialize_loop(builder, steps, calls) ==
    IF steps = <<>>
    THEN [res |-> EndOf(builder), calls |-> Append(calls, Call0("end"))]
    ELSE LET step == Head(steps) IN
         IF "skip" \in DOMAIN step
         THEN LET out == IF builder.kind = "SerializeStruct"
                         THEN SerializeStruct_skip_field(builder, step.skip)
                         ELSE SerializeStructVariant_skip_field(builder, step.skip)
                  made == Append(calls, Call1("skip_field", step.skip))
              IN  IF out.ret.ok THEN Save_serialize_loop(out.self, Tail(steps), made)
                                ELSE [res |-> out.ret, calls |-> made]
         ELSE LET child == Save_serialize(step.value, Serializer(builder.config))
                  out == Resume([builder EXCEPT !.pending = step.slot], child.res)
                  made == Append(calls, Save_serialize_push_call(builder, step.slot))
                              \o Deeper(child.calls)
              IN  IF out.ret.ok THEN Save_serialize_loop(out.self, Tail(steps), made)
                                ELSE [res |-> out.ret, calls |-> made]

Save_serialize(self, ser) ==
    CASE self.k = "Bool" -> [res |-> Serializer_serialize_bool(ser, self.b),
                             calls |-> <<Call1("serialize_bool", self.b)>>]
      [] self.k = "I8" -> [res |-> Serializer_serialize_i8(ser, self.v),
                           calls |-> <<Call1("serialize_i8", self.v)>>]
      [] self.k = "I16" -> [res |-> Serializer_serialize_i16(ser, self.v),
                            calls |-> <<Call1("serialize_i16", self.v)>>]
      [] self.k = "I32" -> [res |-> Serializer_serialize_i32(ser, self.v),
                            calls |-> <<Call1("serialize_i32", self.v)>>]
      [] self.k = "I64" -> [res |-> Serializer_serialize_i64(ser, self.v),
                            calls |-> <<Call1("serialize_i64", self.v)>>]
      [] self.k = "I128" -> [res |-> Serializer_serialize_i128(ser, self.v),
                             calls |-> <<Call1("serialize_i128", self.v)>>]
      [] self.k = "U8" -> [res |-> Serializer_serialize_u8(ser, self.v),
                           calls |-> <<Call1("serialize_u8", self.v)>>]
      [] self.k = "U16" -> [res |-> Serializer_serialize_u16(ser, self.v),
                            calls |-> <<Call1("serialize_u16", self.v)>>]
      [] self.k = "U32" -> [res |-> Serializer_serialize_u32(ser, self.v),
                            calls |-> <<Call1("serialize_u32", self.v)>>]
      [] self.k = "U64" -> [res |-> Serializer_serialize_u64(ser, self.v),
                            calls |-> <<Call1("serialize_u64", self.v)>>]
      [] self.k = "U128" -> [res |-> Serializer_serialize_u128(ser, self.v),
                             calls |-> <<Call1("serialize_u128", self.v)>>]
      [] self.k = "F32" -> [res |-> Serializer_serialize_f32(ser, self.s),
                            calls |-> <<Call1("serialize_f32", self.s)>>]
      [] self.k = "F64" -> [res |-> Serializer_serialize_f64(ser, self.s),
                            calls |-> <<Call1("serialize_f64", self.s)>>]
      [] self.k = "Char" -> [res |-> Serializer_serialize_char(ser, self.s),
                             calls |-> <<Call1("serialize_char", self.s)>>]
      [] self.k = "String" -> [res |-> Serializer_serialize_str(ser, self.s),
                               calls |-> <<Call1("serialize_str", self.s)>>]
      [] self.k = "ByteArray" -> [res |-> Serializer_serialize_bytes(ser, self.bytes),
                                  calls |-> <<Call1("serialize_bytes", self.bytes)>>]
      [] self.k = "Option" /\ ~self.o.some ->
             [res |-> Serializer_serialize_none(ser),
              calls |-> <<Call0("serialize_none")>>]
      [] self.k = "Option" /\ self.o.some ->
             LET inner == Save_serialize(self.o.v, ser) IN
             [res |-> Serializer_serialize_some(SomeCall(ser.config), inner.res),
              calls |-> <<Call0("serialize_some")>> \o Deeper(inner.calls)]
      [] self.k = "UnitStruct" ->
             [res |-> Serializer_serialize_unit_struct(ser, self.name),
              calls |-> <<Call1("serialize_unit_struct", self.name)>>]
      [] self.k = "UnitVariant" ->
             [res |-> Serializer_serialize_unit_variant(ser, self.variant),
              calls |-> <<Call1("serialize_unit_variant", self.variant)>>]
      [] self.k = "Unit" -> [res |-> Serializer_serialize_unit(ser),
                             calls |-> <<Call0("serialize_unit")>>]
      [] self.k = "NewTypeStruct" ->
             LET inner == Save_serialize(self.value, ser) IN
             [res |-> Serializer_serialize_newtype_struct(
                          NewtypeStructCall(ser.config, self.name), inner.res),
              calls |-> <<Call1("serialize_newtype_struct", self.name)>>
                            \o Deeper(inner.calls)]
      [] self.k = "NewTypeVariant" ->
             LET inner == Save_serialize(self.value, ser) IN
             [res |-> Serializer_serialize_newtype_variant(
                          NewtypeVariantCall(ser.config, self.variant), inner.res),
              calls |-> <<Call1("serialize_newtype_variant", self.variant)>>
                            \o Deeper(inner.calls)]
      [] self.k = "Error" -> [res |-> Err(custom(Error_fmt(self.e))), calls |-> <<>>]
      [] OTHER ->
             LET start == Save_serialize_start(self, ser.config) IN
             Save_serialize_loop(start.builder, Save_serialize_steps(self), <<start.call>>)

(***************************************************************************)
(* The trees handed to save / save_errors / Serialize::serialize: every    *)
(* leaf kind, and every aggregate kind over short lists of children, the   *)
(* children being leaves or small aggregates.                              *)
(***************************************************************************)
MaxTreeLen == 2
TreeLists(S) == UNION {[1..n -> S] : n \in 0..MaxTreeLen}
TreeFieldNames == {"a", "b"}

TreeLeaves ==
    {Save_Bool(TRUE), Save_I8(-128), Save_I16(0), Save_I32(0), Save_I64(1),
     Save_I128(0), Save_U8(255), Save_U16(0), Save_U32(0), Save_U64(1), Save_U128(1),
     Save_F32("0.0"), Save_F64("inf"), Save_Char("c"), Save_String("s"),
     Save_ByteArray(<<0, 255>>), Save_Unit, Save_Option(None),
     Save_UnitStruct("S"), Save_UnitVariant(Variant("E", 0, "V")),
     Save_Error(Error("boom", FALSE)),
     Save_Error(Error("protocol error: map has 1 keys and 0 values", TRUE))}

TreesOver(S) ==
    {Save_Option(Some(c)) : c \in S}
    \cup {Save_NewTypeStruct("S", c) : c \in S}
    \cup {Save_NewTypeVariant(Variant("E", 0, "V"), c) : c \in S}
    \cup {Save_Seq(cs) : cs \in TreeLists(S)}
    \cup {Save_Tuple(cs) : cs \in TreeLists(S)}
    \cup {Save_TupleStruct("S", cs) : cs \in TreeLists(S)}
    \cup {Save_TupleVariant(Variant("E", 0, "V"), cs) : cs \in TreeLists(S)}
    \cup {Save_Map(ps) : ps \in TreeLists(S \X S)}
    \cup {Save_Struct("S", fs) :
              fs \in TreeLists(TreeFieldNames \X ({None} \cup {Some(c) : c \in S}))}
    \cup {Save_StructVariant(Variant("E", 0, "V"), fs) :
              fs \in TreeLists(TreeFieldNames \X ({None} \cup {Some(c) : c \in S}))}

TreeChildren == {Save_Bool(TRUE), Save_I128(0), Save_Error(Error("boom", FALSE))}
TreeGrandChildren ==
    {Save_Seq(<<Save_Bool(TRUE)>>),
     Save_Struct("S", << <<"a", Some(Save_Bool(TRUE))>>, <<"a", None>> >>),
     Save_Map(<< <<Save_Bool(TRUE), Save_Error(Error("boom", FALSE))>> >>)}
\* trees as save_errors returns them for producers that break the protocol
TreesPersisted ==
    {Save_Tuple(<<Save_Bool(TRUE),
                  Save_Error(Error("protocol error: expected a tuple of length 2, got 1",
                                   TRUE))>>),
     Save_Map(<< <<Save_Bool(TRUE),
                   Save_Error(Error("protocol error: map has 1 keys and 0 values",
                                    TRUE))>> >>),
     Save_Seq(<<Save_Error(Error("boom", FALSE)),
                Save_Tuple(<<Save_Error(
                    Error("protocol error: expected a tuple of length 1, got 0", TRUE))>>)>>)}
Trees ==
    TreeLeaves \cup TreesOver(TreeChildren) \cup TreesOver(TreeGrandChildren)
        \cup TreesPersisted

\* the value `t` in the caller's hands
SaveValue(tree) == [kind |-> "Save", tree |-> tree]

InitTree ==
    /\ serializer = new
    /\ entry = "none"
    /\ \E tree \in Trees : stack = <<SaveValue(tree)>>
    /\ mode = "config"
    /\ ret = OkUnit
    /\ result = NoResult

\* t.serialize(serializer) with the serializer as configured
serialize_tree ==
    /\ mode = "config"
    /\ entry' = "serialize"
    /\ result' = Save_serialize(stack[1].tree, serializer).res
    /\ mode' = "done"
    /\ UNCHANGED <<serializer, stack, ret>>

\* save(t)
save_tree ==
    /\ mode = "config"
    /\ serializer' = new
    /\ entry' = "save"
    /\ result' = save_return(Save_serialize(stack[1].tree, new).res)
    /\ mode' = "done"
    /\ UNCHANGED <<stack, ret>>

\* save_errors(t)
save_errors_tree ==
    /\ mode = "config"
    /\ serializer' = Serializer_save_errors(new)
    /\ entry' = "save_errors"
    /\ result' = save_errors_return(
                     Save_serialize(stack[1].tree, Serializer_save_errors(new)).res)
    /\ mode' = "done"
    /\ UNCHANGED <<stack, ret>>

NextTree ==
    \/ check_for_protocol_errors
    \/ save_errors_config
    \/ serialize_tree
    \/ save_tree
    \/ save_errors_tree
SpecTree == InitTree /\ [][NextTree]_vars

(***************************************************************************)
(* C14.  Round trip: a tree that holds no Error node, serialized through   *)
(* the capturing serializer with checking off, under either discipline,    *)
(* comes back as Ok of a tree equal to it, whatever its node kinds.        *)
(***************************************************************************)
C14_RoundTrip ==
    (/\ mode = "done"
     /\ entry = "serialize"
     /\ ~serializer.config.protocol_errors
     /\ ~ContainsError(stack[1].tree))
    => result = Ok(stack[1].tree)

(***************************************************************************)
(* The calls a producer made on a builder that is still open, read off the *)
(* builder: the call that created it, one push per recorded element, and   *)
(* the end() it is about to make.                                          *)
(***************************************************************************)
ProducerStart(f) ==
    CASE f.kind = "SerializeSeq" -> Call1("serialize_seq", f.expected_len)
      [] f.kind = "SerializeMap" -> Call1("serialize_map", f.expected_len)
      [] f.kind = "SerializeTuple" -> Call1("serialize_tuple", f.expected_len)
      [] f.kind = "SerializeTupleStruct" ->
             <<0, "serialize_tuple_struct", f.name, f.expected_len>>
      [] f.kind = "SerializeTupleVariant" ->
             <<0, "serialize_tuple_variant", f.variant, f.expected_len>>
      [] f.kind = "SerializeStruct" -> <<0, "serialize_struct", f.name, f.expected_len>>
      [] f.kind = "SerializeStructVariant" ->
             <<0, "serialize_struct_variant", f.variant, f.expected_len>>
ProducerPushes(f) ==
    CASE f.kind \in ElementKinds -> [i \in DOMAIN f.inner |-> Call0("serialize_element")]
      [] f.kind \in ValuesKinds -> [i \in DOMAIN f.values |-> Call0("serialize_field")]
      [] f.kind \in StructKinds ->
             [i \in DOMAIN f.fields |->
                 IF f.fields[i][2].some THEN Call1("serialize_field", f.fields[i][1])
                                        ELSE Call1("skip_field", f.fields[i][1])]
IsOwnCall(call) == call[1] = 0
OwnCalls(calls) == SelectSeq(calls, IsOwnCall)

(***************************************************************************)
(* C15.  When a builder's end() returns Ok of a tree without Error node,   *)
(* re-serializing that tree makes on its serializer the calls the producer *)
(* made on this builder, with the same arguments: the same start call with *)
(* the same declared length or length hint, the same pushes, end().        *)
(***************************************************************************)
C15_SameCalls ==
    \A i \in Builders : LET f == stack[i] IN
        (EndOf(f).ok /\ ~ContainsError(EndOf(f).v))
        => LET again == OwnCalls(Save_serialize(EndOf(f).v, Serializer(f.config)).calls) IN
           IF f.kind = "SerializeMap"
           THEN Head(again) = ProducerStart(f)
           ELSE again = <<ProducerStart(f)>> \o ProducerPushes(f) \o <<Call0("end")>>

(***************************************************************************)
(* The leaves of a tree in depth-first, left-to-right order (a map's key   *)
(* before its value, skipped struct fields left out).                      *)
(***************************************************************************)
RECURSIVE LeafSeq(_), LeafSeqOfAll(_)
LeafSeqOfAll(nodes) ==
    IF nodes = <<>> THEN <<>> ELSE LeafSeq(Head(nodes)) \o LeafSeqOfAll(Tail(nodes))
IsPresent(field) == field[2].some
LeafSeq(n) ==
    CASE n.k \in {"Seq", "Tuple"} -> LeafSeqOfAll(n.items)
      [] n.k \in {"TupleStruct", "TupleVariant"} -> LeafSeqOfAll(n.values)
      [] n.k = "Map" ->
             LeafSeqOfAll([i \in 1..(2 * Len(n.pairs)) |->
                              n.pairs[(i + 1) \div 2][IF i % 2 = 1 THEN 1 ELSE 2]])
      [] n.k \in {"Struct", "StructVariant"} ->
             LET present == SelectSeq(n.fields, IsPresent) IN
             LeafSeqOfAll([i \in DOMAIN present |-> present[i][2].v])
      [] n.k = "Option" /\ n.o.some -> LeafSeq(n.o.v)
      [] n.k \in {"NewTypeStruct", "NewTypeVariant"} -> LeafSeq(n.value)
      [] OTHER -> <<n>>

\* position of the first Error leaf (0 when there is none)
FirstError(leaves) ==
    IF \E i \in DOMAIN leaves : leaves[i].k = "Error"
    THEN CHOOSE i \in DOMAIN leaves :
             /\ leaves[i].k = "Error"
             /\ \A j \in 1..(i - 1) : leaves[j].k # "Error"
    ELSE 0

ScalarMethods ==
    {"serialize_bool", "serialize_i8", "serialize_i16", "serialize_i32", "serialize_i64",
     "serialize_i128", "serialize_u8", "serialize_u16", "serialize_u32", "serialize_u64",
     "serialize_u128", "serialize_f32", "serialize_f64", "serialize_char", "serialize_str",
     "serialize_bytes", "serialize_none", "serialize_unit", "serialize_unit_struct",
     "serialize_unit_variant"}
IsScalarCall(call) == call[2] \in ScalarMethods

(***************************************************************************)
(* C16.  Re-serializing a tree whose first Error leaf (depth-first) holds  *)
(* the message m, no unsupported 128-bit leaf standing before it, into a   *)
(* ShortCircuit serializer: the result is Err; it is Err{m, not protocol}  *)
(* unless an aggregate finished before that leaf failed its own protocol   *)
(* check, which cannot happen with checking off; no call is made for the   *)
(* Error leaf, and with checking off exactly the leaves before it have had *)
(* their scalar call.                                                      *)
(***************************************************************************)
C16_ErrorSurfaces ==
    (mode = "done" /\ serializer.config.error_discipline = "ShortCircuit")
    => LET tree == stack[1].tree
           leaves == LeafSeq(tree)
           first == FirstError(leaves)
           calls == Save_serialize(tree, serializer).calls
           scalars == SelectSeq(calls, IsScalarCall)
       IN  (/\ first > 0
            /\ \A j \in 1..(first - 1) : leaves[j].k \notin {"I128", "U128"})
           => /\ ~result.ok
              /\ result.e.protocol \/ result.e = Error(leaves[first].e.msg, FALSE)
              /\ Len(scalars) <= first - 1
              /\ ~serializer.config.protocol_errors
                 => /\ result = Err(Error(leaves[first].e.msg, FALSE))
                    /\ Len(scalars) = first - 1

C16_Witness ==
    /\ mode = "done"
    /\ entry = "save"
    /\ stack[1].tree = Save_Seq(<<Save_Bool(TRUE), Save_Error(Error("boom", FALSE))>>)
    /\ result = Err(Error("boom", FALSE))

(***************************************************************************)
(* Producers that propagate: one whose push or skip has returned Err makes *)
(* no further call on its builder and returns that Err (the `?` after each *)
(* push in derived code and in impl Serialize for Save).  A producer may   *)
(* still fail by itself while its builder has not failed.                  *)
(***************************************************************************)
NextPropagating ==
    \/ check_for_protocol_errors
    \/ save_errors_config
    \/ serialize
    \/ save
    \/ save_errors
    \/ serialize_bool
    \/ serialize_unit
    \/ serialize_none
    \/ serialize_some
    \/ serialize_newtype_struct
    \/ serialize_newtype_variant
    \/ serialize_seq
    \/ serialize_tuple
    \/ serialize_tuple_struct
    \/ serialize_tuple_variant
    \/ serialize_map
    \/ serialize_struct
    \/ serialize_struct_variant
    \/ producer_fails
    \/ serialize_i128
    \/ serialize_u128
    \/ ret.ok /\ seq_serialize_element
    \/ ret.ok /\ seq_end
    \/ ret.ok /\ tuple_serialize_element
    \/ ret.ok /\ tuple_end
    \/ ret.ok /\ tuple_struct_serialize_field
    \/ ret.ok /\ tuple_struct_end
    \/ ret.ok /\ tuple_variant_serialize_field
    \/ ret.ok /\ tuple_variant_end
    \/ ret.ok /\ map_serialize_key
    \/ ret.ok /\ map_serialize_value
    \/ ret.ok /\ map_end
    \/ ret.ok /\ struct_serialize_field
    \/ ret.ok /\ struct_skip_field
    \/ ret.ok /\ struct_end
    \/ ret.ok /\ struct_variant_serialize_field
    \/ ret.ok /\ struct_variant_skip_field
    \/ ret.ok /\ struct_variant_end
    \/ ret.ok /\ producer_abandons
    \/ producer_propagates

SpecPropagating == Init /\ [][NextPropagating]_vars

AnyEnd ==
    \/ seq_end \/ tuple_end \/ tuple_struct_end \/ tuple_variant_end
    \/ map_end \/ struct_end \/ struct_variant_end

ShortCircuiting == serializer.config.error_discipline = "ShortCircuit"

\* the failure e, returned into the frames `from`, reaches the nearest builder's
\* producer or the caller of the entry point with nothing appended on the way
Carried(e, from) ==
    LET n == Len(stack') IN
    /\ n <= Len(from)
    /\ \A i \in (n + 1)..Len(from) : from[i].kind \in WrapperKinds
    /\ IF n = 0
       THEN mode' = "done" /\ result' = Err(e)
       ELSE /\ mode' = "bld"
            /\ ret' = Err(e)
            /\ from[n].kind \in BuilderKinds
            /\ stack' = Append(SubSeq(from, 1, n - 1), [from[n] EXCEPT !.pending = NoSlot])

(***************************************************************************)
(* C17.  ShortCircuit, producers that propagate.  A failure arises either  *)
(* from a value itself or its scalar call (Err{msg, not protocol}) or from *)
(* an aggregate's end() (after its children); that step, and every step    *)
(* after it, hands the same error one producer up with no element appended *)
(* to any builder and no further child serialized, until the entry point   *)
(* returns exactly that error.  A traversal that has failed has no step    *)
(* other than that one.                                                    *)
(***************************************************************************)
C17_Arises ==
    /\ (ShortCircuiting /\ producer_fails)
       => \E msg \in Messages : Carried(custom(msg), stack)
    /\ (ShortCircuiting /\ (serialize_i128 \/ serialize_u128))
       => \E msg \in {"i128 is not supported", "u128 is not supported"} :
              Carried(custom(msg), stack)
    /\ (ShortCircuiting /\ producer_abandons)
       => \E msg \in Messages : Carried(custom(msg), Rest)
    /\ (ShortCircuiting /\ AnyEnd /\ ~EndOf(Top).ok)
       => /\ EndOf(Top).e.protocol
          /\ Carried(EndOf(Top).e, Rest)

C17_Propagates ==
    (ShortCircuiting /\ mode = "bld" /\ ~ret.ok) => Carried(ret.e, Rest)

C17_Sticky ==
    /\ (mode = "ser" \/ (mode = "bld" /\ Top.pending # NoSlot)) => ret.ok
    /\ (mode = "bld" /\ ~ret.ok) => ShortCircuiting

C17_FirstFailure == []C17_Sticky /\ [][C17_Arises /\ C17_Propagates]_vars

\* a nested aggregate's protocol error has come back from the outer builder's push,
\* an earlier sibling being recorded
C17_Witness ==
    /\ mode = "bld"
    /\ entry = "save"
    /\ Len(stack) = 1
    /\ Top.kind = "SerializeSeq"
    /\ Top.inner = <<Save_Bool(TRUE)>>
    /\ ~ret.ok
    /\ ret.e.protocol

(***************************************************************************)
(* What the recorded state of a builder violates of the serde protocol.    *)
(***************************************************************************)
RepeatsName(fields) ==
    \E i, j \in DOMAIN fields : i < j /\ fields[i][1] = fields[j][1]

Violation(f) ==
    CASE f.kind = "SerializeSeq" ->
             f.expected_len.some /\ f.expected_len.v # Len(f.inner)
      [] f.kind = "SerializeTuple" -> f.expected_len # Len(f.inner)
      [] f.kind \in ValuesKinds -> f.expected_len # Len(f.values)
      [] f.kind = "SerializeMap" ->
             \/ Len(f.keys) # Len(f.values)
             \/ f.expected_len.some /\ f.expected_len.v # Len(f.keys)
      [] f.kind \in StructKinds ->
             \/ RepeatsName(f.fields)
             \/ f.expected_len # Len(f.fields)

\* the node a builder stands for, from what it has recorded
Captured(f) ==
    CASE f.kind = "SerializeSeq" -> Save_Seq(f.inner)
      [] f.kind = "SerializeTuple" -> Save_Tuple(f.inner)
      [] f.kind = "SerializeTupleStruct" -> Save_TupleStruct(f.name, f.values)
      [] f.kind = "SerializeTupleVariant" -> Save_TupleVariant(f.variant, f.values)
      [] f.kind = "SerializeMap" ->
             Save_Map([i \in DOMAIN f.keys |-> <<f.keys[i], f.values[i]>>])
      [] f.kind = "SerializeStruct" -> Save_Struct(f.name, f.fields)
      [] f.kind = "SerializeStructVariant" -> Save_StructVariant(f.variant, f.fields)

OwnFailure ==
    producer_fails \/ producer_abandons \/ serialize_i128 \/ serialize_u128

(***************************************************************************)
(* C18.  save (default configuration), producers that propagate.  An       *)
(* aggregate's end() fails exactly when its recorded state has a protocol  *)
(* violation, and otherwise returns the captured node; a step turns a      *)
(* traversal without failure into a failed one exactly when it is a        *)
(* node's own failure or the end() of a violating aggregate; a failed      *)
(* traversal stays failed; so save returns Err exactly in those cases,     *)
(* and Ok with a tree in every other.                                      *)
(***************************************************************************)
C18_EndFailsIffViolation ==
    entry = "save"
    => \A i \in Builders :
           /\ stack[i].config = new.config
           /\ EndOf(stack[i]).ok <=> ~Violation(stack[i])
           /\ ~Violation(stack[i]) => EndOf(stack[i]) = Ok(Captured(stack[i]))
           /\ Violation(stack[i]) => EndOf(stack[i]).e.protocol

C18_Failed == IF mode = "done" THEN ~result.ok ELSE ~ret.ok

C18_Step ==
    (entry = "save" /\ mode \in {"ser", "bld"})
    => /\ (~C18_Failed /\ (OwnFailure \/ (AnyEnd /\ Violation(Top)))) => C18_Failed'
       /\ (~C18_Failed /\ ~OwnFailure /\ ~(AnyEnd /\ Violation(Top))) => ~C18_Failed'
       /\ C18_Failed => C18_Failed'
       /\ (~C18_Failed' /\ mode' = "done") => IsTree(result'.v) /\ ~ContainsError(result'.v)

C18_ErrIffViolation == []C18_EndFailsIffViolation /\ [][C18_Step]_vars

\* save has returned the protocol error of an aggregate
C18_Witness ==
    /\ mode = "done"
    /\ entry = "save"
    /\ ~result.ok
    /\ result.e = Error("protocol error: map has 1 keys and 0 values", TRUE)

(***************************************************************************)
(* C19.  Serializer::new(), and the serializer save uses, are human        *)
(* readable, checking and ShortCircuit; save_errors uses the same flags    *)
(* with Persist.  From any configuration, human_readable(b) sets only the  *)
(* human-readable flag, check_for_protocol_errors(b) only the checking     *)
(* flag, and save_errors() only the discipline, to Persist.                *)
(***************************************************************************)
C19_Defaults ==
    /\ new = [config |-> [is_human_readable |-> TRUE, protocol_errors |-> TRUE,
                          error_discipline |-> "ShortCircuit"]]
    /\ entry = "save"
       => serializer.config = [is_human_readable |-> TRUE, protocol_errors |-> TRUE,
                               error_discipline |-> "ShortCircuit"]
    /\ entry = "save_errors"
       => serializer.config = [is_human_readable |-> TRUE, protocol_errors |-> TRUE,
                               error_discipline |-> "Persist"]

C19_OwnFlagOnly ==
    /\ human_readable
       => /\ serializer'.config.protocol_errors = serializer.config.protocol_errors
          /\ serializer'.config.error_discipline = serializer.config.error_discipline
    /\ check_for_protocol_errors
       => /\ serializer'.config.is_human_readable = serializer.config.is_human_readable
          /\ serializer'.config.error_discipline = serializer.config.error_discipline
    /\ save_errors_config
       => /\ serializer'.config.is_human_readable = serializer.config.is_human_readable
          /\ serializer'.config.protocol_errors = serializer.config.protocol_errors
          /\ serializer'.config.error_discipline = "Persist"
    /\ \A b \in BOOLEAN :
          /\ Serializer_human_readable(serializer, b).config.is_human_readable = b
          /\ Serializer_check_for_protocol_errors(serializer, b).config.protocol_errors = b

C19_Configuration == []C19_Defaults /\ [][C19_OwnFlagOnly]_vars

\* all three calls have been applied, each away from the default
C19_Witness ==
    /\ mode = "config"
    /\ serializer.config = [is_human_readable |-> FALSE, protocol_errors |-> FALSE,
                            error_discipline |-> "Persist"]

(***************************************************************************)
(* C20.  During a traversal every builder and every wrapper call in        *)
(* progress holds the configuration of the serializer the current value    *)
(* was handed, and no step of the traversal changes that serializer's      *)
(* configuration: it is the root's at every depth, and so is the answer    *)
(* of is_human_readable().                                                 *)
(***************************************************************************)
C20_SameEverywhere ==
    \A i \in DOMAIN stack :
        /\ stack[i].config = serializer.config
        /\ Serializer_is_human_readable(Serializer(stack[i].config))
               = Serializer_is_human_readable(serializer)

C20_RootKept ==
    mode # "config"
    => /\ serializer'.config = serializer.config
       /\ Serializer_is_human_readable(serializer') = Serializer_is_human_readable(serializer)

C20_ConfigPropagates == []C20_SameEverywhere /\ [][C20_RootKept]_vars

\* a value two builders deep holds a serializer with no default setting left
C20_Witness ==
    /\ mode = "ser"
    /\ Len(stack) = 2
    /\ stack[1].kind = "SerializeSeq"
    /\ ~Serializer_is_human_readable(serializer)
    /\ ~serializer.config.protocol_errors
    /\ serializer.config.error_discipline = "Persist"

(***************************************************************************)
(* #[derive(PartialEq, PartialOrd)] on enum Save, and the derived          *)
(* comparisons of Error and Variant.  An Ordering is "Less", "Equal" or    *)
(* "Greater"; partial_cmp returns an Option of it.  Derived comparison     *)
(* goes by the variant's position in the enum first, then by the fields    *)
(* in order; a Vec compares element by element, then by length.            *)
(***************************************************************************)
SaveVariants ==
    <<"Bool", "I8", "I16", "I32", "I64", "I128", "U8", "U16", "U32", "U64", "U128",
      "F32", "F64", "Char", "String", "ByteArray", "Option", "Unit", "UnitStruct",
      "UnitVariant", "NewTypeStruct", "NewTypeVariant", "Seq", "Map", "Tuple",
      "TupleStruct", "TupleVariant", "Struct", "StructVariant", "Error">>
discriminant(k) == CHOOSE i \in DOMAIN SaveVariants : SaveVariants[i] = k

\* the strings and the floats (other than NaN) of the compared trees, in ascending order
StringOrder == <<"", "S", "V", "a", "b", "boom", "c", "s">>
FloatOrder == <<"-1.5", "0.0", "inf">>
PositionIn(order, x) == CHOOSE i \in DOMAIN order : order[i] = x

Int_cmp(x, y) == IF x < y THEN "Less" ELSE IF x = y THEN "Equal" ELSE "Greater"
bool_cmp(x, y) == Int_cmp(IF x THEN 1 ELSE 0, IF y THEN 1 ELSE 0)
str_cmp(x, y) == Int_cmp(PositionIn(StringOrder, x), PositionIn(StringOrder, y))
\* IEEE 754: NaN is unordered with, and unequal to, every float including itself
float_eq(x, y) == x # "NaN" /\ y # "NaN" /\ x = y
float_partial_cmp(x, y) ==
    IF x = "NaN" \/ y = "NaN" THEN None
    ELSE Some(Int_cmp(PositionIn(FloatOrder, x), PositionIn(FloatOrder, y)))

\* lexicographic step of a derived partial_cmp
then_partial_cmp(first, rest) == IF first = Some("Equal") THEN rest ELSE first

Error_cmp(x, y) ==
    then_partial_cmp(Some(str_cmp(x.msg, y.msg)), Some(bool_cmp(x.protocol, y.protocol)))
Variant_cmp(x, y) ==
    then_partial_cmp(Some(str_cmp(x.name, y.name)),
        then_partial_cmp(Some(Int_cmp(x.variant_index, y.variant_index)),
                         Some(str_cmp(x.variant, y.variant))))

RECURSIVE bytes_cmp(_, _)
bytes_cmp(x, y) ==
    IF x = <<>> \/ y = <<>> THEN Int_cmp(Len(x), Len(y))
    ELSE IF Head(x) # Head(y) THEN Int_cmp(Head(x), Head(y))
    ELSE bytes_cmp(Tail(x), Tail(y))

RECURSIVE Save_eq(_, _), Option_eq(_, _), Vec_eq(_, _, _), Elem_eq(_, _, _)
Option_eq(x, y) == x.some = y.some /\ (x.some => Save_eq(x.v, y.v))
Elem_eq(of, x, y) ==
    CASE of = "Save" -> Save_eq(x, y)
      [] of = "pair" -> Save_eq(x[1], y[1]) /\ Save_eq(x[2], y[2])
      [] of = "field" -> x[1] = y[1] /\ Option_eq(x[2], y[2])
Vec_eq(of, xs, ys) ==
    /\ Len(xs) = Len(ys)
    /\ \A i \in DOMAIN xs : Elem_eq(of, xs[i], ys[i])
Save_eq(a, b) ==
    /\ a.k = b.k
    /\ CASE a.k = "Bool" -> a.b = b.b
         [] a.k \in {"I8", "I16", "I32", "I64", "I128", "U8", "U16", "U32", "U64", "U128"} ->
                a.v = b.v
         [] a.k \in {"F32", "F64"} -> float_eq(a.s, b.s)
         [] a.k \in {"Char", "String"} -> a.s = b.s
         [] a.k = "ByteArray" -> a.bytes = b.bytes
         [] a.k = "Option" -> Option_eq(a.o, b.o)
         [] a.k = "Unit" -> TRUE
         [] a.k = "UnitStruct" -> a.name = b.name
         [] a.k = "UnitVariant" -> a.variant = b.variant
         [] a.k = "NewTypeStruct" -> a.name = b.name /\ Save_eq(a.value, b.value)
         [] a.k = "NewTypeVariant" -> a.variant = b.variant /\ Save_eq(a.value, b.value)
         [] a.k \in {"Seq", "Tuple"} -> Vec_eq("Save", a.items, b.items)
         [] a.k = "Map" -> Vec_eq("pair", a.pairs, b.pairs)
         [] a.k = "TupleStruct" -> a.name = b.name /\ Vec_eq("Save", a.values, b.values)
         [] a.k = "TupleVariant" ->
                a.variant = b.variant /\ Vec_eq("Save", a.values, b.values)
         [] a.k = "Struct" -> a.name = b.name /\ Vec_eq("field", a.fields, b.fields)
         [] a.k = "StructVariant" ->
                a.variant = b.variant /\ Vec_eq("field", a.fields, b.fields)
         [] a.k = "Error" -> a.e = b.e

RECURSIVE Save_partial_cmp(_, _), Option_partial_cmp(_, _), Vec_partial_cmp(_, _, _),
          Elem_partial_cmp(_, _, _)
Option_partial_cmp(x, y) ==
    IF x.some /\ y.some THEN Save_partial_cmp(x.v, y.v)
    ELSE Some(bool_cmp(x.some, y.some))
Elem_partial_cmp(of, x, y) ==
    CASE of = "Save" -> Save_partial_cmp(x, y)
      [] of = "pair" ->
             then_partial_cmp(Save_partial_cmp(x[1], y[1]), Save_partial_cmp(x[2], y[2]))
      [] of = "field" ->
             then_partial_cmp(Some(str_cmp(x[1], y[1])), Option_partial_cmp(x[2], y[2]))
Vec_partial_cmp(of, xs, ys) ==
    IF xs = <<>> \/ ys = <<>> THEN Some(Int_cmp(Len(xs), Len(ys)))
    ELSE then_partial_cmp(Elem_partial_cmp(of, Head(xs), Head(ys)),
                          Vec_partial_cmp(of, Tail(xs), Tail(ys)))
Save_partial_cmp(a, b) ==
    IF a.k # b.k THEN Some(Int_cmp(discriminant(a.k), discriminant(b.k)))
    ELSE
    CASE a.k = "Bool" -> Some(bool_cmp(a.b, b.b))
      [] a.k \in {"I8", "I16", "I32", "I64", "I128", "U8", "U16", "U32", "U64", "U128"} ->
             Some(Int_cmp(a.v, b.v))
      [] a.k \in {"F32", "F64"} -> float_partial_cmp(a.s, b.s)
      [] a.k \in {"Char", "String"} -> Some(str_cmp(a.s, b.s))
      [] a.k = "ByteArray" -> Some(bytes_cmp(a.bytes, b.bytes))
      [] a.k = "Option" -> Option_partial_cmp(a.o, b.o)
      [] a.k = "Unit" -> Some("Equal")
      [] a.k = "UnitStruct" -> Some(str_cmp(a.name, b.name))
      [] a.k = "UnitVariant" -> Variant_cmp(a.variant, b.variant)
      [] a.k = "NewTypeStruct" ->
             then_partial_cmp(Some(str_cmp(a.name, b.name)),
                              Save_partial_cmp(a.value, b.value))
      [] a.k = "NewTypeVariant" ->
             then_partial_cmp(Variant_cmp(a.variant, b.variant),
                              Save_partial_cmp(a.value, b.value))
      [] a.k \in {"Seq", "Tuple"} -> Vec_partial_cmp("Save", a.items, b.items)
      [] a.k = "Map" -> Vec_partial_cmp("pair", a.pairs, b.pairs)
      [] a.k = "TupleStruct" ->
             then_partial_cmp(Some(str_cmp(a.name, b.name)),
                              Vec_partial_cmp("Save", a.values, b.values))
      [] a.k = "TupleVariant" ->
             then_partial_cmp(Variant_cmp(a.variant, b.variant),
                              Vec_partial_cmp("Save", a.values, b.values))
      [] a.k = "Struct" ->
             then_partial_cmp(Some(str_cmp(a.name, b.name)),
                              Vec_partial_cmp("field", a.fields, b.fields))
      [] a.k = "StructVariant" ->
             then_partial_cmp(Variant_cmp(a.variant, b.variant),
                              Vec_partial_cmp("field", a.fields, b.fields))
      [] a.k = "Error" -> Error_cmp(a.e, b.e)

Save_lt(a, b) == Save_partial_cmp(a, b) = Some("Less")
Save_gt(a, b) == Save_partial_cmp(a, b) = Some("Greater")

(***************************************************************************)
(* Pairs of trees to compare, and the comparisons applied to them.         *)
(***************************************************************************)
CompareLeaves ==
    {Save_Bool(FALSE), Save_Bool(TRUE), Save_I8(0), Save_I8(127),
     Save_F32("0.0"), Save_F32("NaN"), Save_F64("-1.5"), Save_F64("inf"),
     Save_String("s"), Save_ByteArray(<<0, 255>>), Save_Unit, Save_Option(None),
     Save_UnitVariant(Variant("S", 0, "V")), Save_Error(Error("boom", FALSE))}
CompareChildren == {Save_Bool(TRUE), Save_F32("0.0"), Save_F32("NaN")}
CompareTrees ==
    CompareLeaves
        \cup {Save_Option(Some(c)) : c \in CompareChildren}
        \cup {Save_NewTypeStruct("S", c) : c \in CompareChildren}
        \cup {Save_Seq(l) : l \in TreeLists(CompareChildren)}
        \cup {Save_Tuple(l) : l \in TreeLists(CompareChildren)}
        \cup {Save_Map(<<<<k, v>>>>) : k, v \in CompareChildren}
        \cup {Save_Struct("S", <<<<"a", Some(c)>>>>) : c \in CompareChildren}
        \cup {Save_Struct("S", <<<<n, None>>>>) : n \in TreeFieldNames}

InitCompare ==
    /\ serializer = new
    /\ entry = "none"
    /\ \E a, b \in CompareTrees : stack = <<SaveValue(a), SaveValue(b)>>
    /\ mode = "config"
    /\ ret = OkUnit
    /\ result = NoResult

\* a == b
compare_eq ==
    /\ mode = "config"
    /\ entry' = "eq"
    /\ result' = [k |-> "bool", b |-> Save_eq(stack[1].tree, stack[2].tree)]
    /\ mode' = "done"
    /\ UNCHANGED <<serializer, stack, ret>>

\* a.partial_cmp(&b)
compare_partial_cmp ==
    /\ mode = "config"
    /\ entry' = "partial_cmp"
    /\ result' = [k |-> "ordering", o |-> Save_partial_cmp(stack[1].tree, stack[2].tree)]
    /\ mode' = "done"
    /\ UNCHANGED <<serializer, stack, ret>>

NextCompare == compare_eq \/ compare_partial_cmp
SpecCompare == InitCompare /\ [][NextCompare]_vars

(***************************************************************************)
(* C21.  For any two trees a and b: a == a, and exactly one of a < b,      *)
(* a == b, a > b.                                                          *)
(***************************************************************************)
C21_TotalOrder ==
    mode = "done"
    => LET a == stack[1].tree
           b == stack[2].tree
           lt == Save_lt(a, b)
           eq == Save_eq(a, b)
           gt == Save_gt(a, b)
       IN  /\ Save_eq(a, a)
           /\ lt \/ eq \/ gt
           /\ ~(lt /\ eq) /\ ~(lt /\ gt) /\ ~(eq /\ gt)

(***************************************************************************)
(* The buffers of a builder (a map has two), and the list its node holds.  *)
(***************************************************************************)
Buffers(f) ==
    CASE f.kind \in ElementKinds -> <<f.inner>>
      [] f.kind \in ValuesKinds -> <<f.values>>
      [] f.kind \in StructKinds -> <<f.fields>>
      [] f.kind = "SerializeMap" -> <<f.keys, f.values>>
      [] OTHER -> <<>>
EmittedList(n) ==
    CASE n.k \in {"Seq", "Tuple"} -> n.items
      [] n.k \in {"TupleStruct", "TupleVariant"} -> n.values
      [] n.k \in {"Struct", "StructVariant"} -> n.fields
      [] n.k = "Map" -> n.pairs
IsPrefix(xs, ys) == Len(xs) <= Len(ys) /\ \A i \in DOMAIN xs : ys[i] = xs[i]
IsProtocolErrorNode(n) == n.k = "Error" /\ n.e.protocol

(***************************************************************************)
(* C22.  A push appends at the end of its buffer or leaves it alone, and   *)
(* no step changes what a buffer already holds.  end() emits the recorded  *)
(* elements (fields) first, unchanged and in push order, and only          *)
(* protocol-error entries after them; a map's i-th pair is the i-th key    *)
(* with the i-th value while both exist, a surplus key or value keeps its  *)
(* position next to a protocol error, and the length error's pair is last. *)
(***************************************************************************)
C22_Emitted ==
    \A i \in Builders :
        LET f == stack[i]
            out == EndOf(f)
            list == EmittedList(out.v)
        IN  out.ok =>
            CASE f.kind \in ElementKinds \cup ValuesKinds ->
                     /\ IsPrefix(Buffers(f)[1], list)
                     /\ \A j \in (Len(Buffers(f)[1]) + 1)..Len(list) :
                            IsProtocolErrorNode(list[j])
              [] f.kind \in StructKinds ->
                     /\ IsPrefix(f.fields, list)
                     /\ \A j \in (Len(f.fields) + 1)..Len(list) :
                            /\ list[j][1] = "!error"
                            /\ list[j][2].some
                            /\ IsProtocolErrorNode(list[j][2].v)
              [] f.kind = "SerializeMap" ->
                     /\ Len(list) >= Max(Len(f.keys), Len(f.values))
                     /\ \A j \in DOMAIN list :
                            /\ IF j <= Len(f.keys) THEN list[j][1] = f.keys[j]
                                                   ELSE IsProtocolErrorNode(list[j][1])
                            /\ IF j <= Len(f.values) THEN list[j][2] = f.values[j]
                                                     ELSE IsProtocolErrorNode(list[j][2])

C22_AppendOnly ==
    \A i \in DOMAIN stack \cap DOMAIN stack' :
        \A b \in DOMAIN Buffers(stack[i]) :
            /\ IsPrefix(Buffers(stack[i])[b], Buffers(stack'[i])[b])
            /\ Len(Buffers(stack'[i])[b]) <= Len(Buffers(stack[i])[b]) + 1

C22_FinishKeepsOrder == []C22_Emitted /\ [][C22_AppendOnly]_vars

\* two different elements recorded, and end() about to add the length error
C22_Witness ==
    /\ mode = "bld"
    /\ Top.kind = "SerializeTuple"
    /\ Persisting(Top) /\ Checking(Top)
    /\ Top.expected_len = 3
    /\ Top.inner = <<Save_Bool(TRUE), Save_Unit>>
    /\ Len(EndOf(Top).v.items) = 3

(***************************************************************************)
(* C23.  A key push whose child succeeds appends to the keys alone and a   *)
(* value push to the values alone, whatever the two buffers hold at that   *)
(* moment, and both return Ok; end() is computed from the two buffers, the *)
(* hint and the configuration only.  So the emitted map depends on the     *)
(* order of the keys and of the values, not on how they were interleaved,  *)
(* and with as many keys as values (and a matching or absent hint) it is   *)
(* the list of i-th key with i-th value, with no protocol error.           *)
(***************************************************************************)
ChildSucceeds == serialize_bool \/ serialize_unit \/ serialize_none

C23_Push ==
    (ChildSucceeds /\ stack # <<>> /\ Top.kind = "SerializeMap")
    => /\ mode' = "bld"
       /\ ret' = OkUnit
       /\ Len(stack') = Len(stack)
       /\ stack'[Len(stack)].pending = NoSlot
       /\ DOMAIN Top = {"kind", "config", "expected_len", "keys", "values", "pending"}
       /\ \E n \in {Save_Unit, Save_Option(None)} \cup {Save_Bool(b) : b \in BOOLEAN} :
             IF Top.pending = KeySlot
             THEN stack' = Append(Rest, [Top EXCEPT !.keys = Append(@, n), !.pending = NoSlot])
             ELSE stack' = Append(Rest, [Top EXCEPT !.values = Append(@, n),
                                                    !.pending = NoSlot])

C23_Paired ==
    \A i \in Builders :
        LET f == stack[i] IN
        (/\ f.kind = "SerializeMap"
         /\ Len(f.keys) = Len(f.values)
         /\ f.expected_len.some /\ Checking(f) => f.expected_len.v = Len(f.keys))
        => EndOf(f) = Ok(Save_Map([j \in DOMAIN f.keys |-> <<f.keys[j], f.values[j]>>]))

C23_Interleaving == []C23_Paired /\ [][C23_Push]_vars

\* two keys were pushed before the first value, which is being serialized
C23_Witness ==
    /\ mode = "ser"
    /\ stack # <<>>
    /\ Top.kind = "SerializeMap"
    /\ Len(Top.keys) = 2
    /\ Top.values = <<>>
    /\ Top.pending = ValueSlot

(***************************************************************************)
(* C24.  Persist.  handle is Ok(n) for Ok(n) and Ok(Error(e)) for Err(e),  *)
(* e as it is.  In a Persist traversal every push, skip_field and end()    *)
(* returns Ok; a child that fails is recorded as Error(e) at the end of    *)
(* the buffer its push belongs to, and the producer goes on.               *)
(***************************************************************************)
C24_Handle ==
    /\ \A n \in {Save_Unit, Save_Bool(TRUE), Save_Error(Error("boom", TRUE))} :
           Persist_handle(Ok(n)) = Ok(n)
    /\ \A msg \in Messages \cup {"protocol error: map has 1 keys and 0 values"} :
           \A protocol \in BOOLEAN :
               Persist_handle(Err(Error(msg, protocol)))
                   = Ok([k |-> "Error", e |-> [msg |-> msg, protocol |-> protocol]])

C24_NeverFails ==
    (mode \in {"ser", "bld"} /\ serializer.config.error_discipline = "Persist")
    => /\ ret = OkUnit
       /\ \A i \in Builders : Persisting(stack[i]) /\ EndOf(stack[i]).ok

C24_FailingChild ==
    (producer_fails /\ stack # <<>> /\ Top.kind \in BuilderKinds /\ Persisting(Top))
    => /\ mode' = "bld"
       /\ ret' = OkUnit
       /\ \E msg \in Messages :
            LET n == Save_Error(Error(msg, FALSE)) IN
            stack' = Append(Rest,
                CASE Top.pending = ElementSlot /\ Top.kind \in ElementKinds ->
                         [Top EXCEPT !.inner = Append(@, n), !.pending = NoSlot]
                  [] Top.pending = ElementSlot /\ Top.kind \in ValuesKinds ->
                         [Top EXCEPT !.values = Append(@, n), !.pending = NoSlot]
                  [] Top.pending = KeySlot ->
                         [Top EXCEPT !.keys = Append(@, n), !.pending = NoSlot]
                  [] Top.pending = ValueSlot ->
                         [Top EXCEPT !.values = Append(@, n), !.pending = NoSlot]
                  [] OTHER ->
                         [Top EXCEPT !.fields = Append(@, <<Top.pending.key, Some(n)>>),
                                     !.pending = NoSlot])

C24_PersistTotal == [](C24_Handle /\ C24_NeverFails) /\ [][C24_FailingChild]_vars

\* a failed child is recorded and the next element after it as well
C24_Witness ==
    /\ mode = "bld"
    /\ Top.kind = "SerializeSeq"
    /\ Persisting(Top)
    /\ Top.inner = <<Save_Error(Error("boom", FALSE)), Save_Bool(TRUE)>>

(***************************************************************************)
(* C25.  serialize_some and the two newtype methods return the wrapper     *)
(* around the inner node when the inner value succeeds; when it fails with *)
(* e they return the wrapper around Error(e) as a success under Persist    *)
(* and Err(e), no node, under ShortCircuit.  serialize_none returns        *)
(* Option(None).                                                           *)
(***************************************************************************)
Wrapped(call, n) ==
    CASE call.kind = "serialize_some" -> Save_Option(Some(n))
      [] call.kind = "serialize_newtype_struct" -> Save_NewTypeStruct(call.name, n)
      [] call.kind = "serialize_newtype_variant" -> Save_NewTypeVariant(call.variant, n)

C25_Methods ==
    /\ Serializer_serialize_none(serializer) = Ok(Save_Option(None))
    /\ \A i \in DOMAIN stack :
          stack[i].kind \in WrapperKinds =>
             /\ \A n \in {Save_Unit, Save_Bool(FALSE), Save_Option(None)} :
                    WrapperReturn(stack[i], Ok(n)) = Ok(Wrapped(stack[i], n))
             /\ \A msg \in Messages :
                    WrapperReturn(stack[i], Err(custom(msg)))
                        = IF Persisting(stack[i])
                          THEN Ok(Wrapped(stack[i], Save_Error(Error(msg, FALSE))))
                          ELSE Err(Error(msg, FALSE))

\* the wrapper call is the root value's: its result is what the entry point returns
C25_AtRoot ==
    (Len(stack) = 1 /\ Top.kind \in WrapperKinds /\ entry \in {"serialize", "save"})
    => /\ producer_fails
          => \E msg \in Messages :
                result' = IF Persisting(Top)
                          THEN Ok(Wrapped(Top, Save_Error(Error(msg, FALSE))))
                          ELSE Err(Error(msg, FALSE))
       /\ serialize_unit => result' = Ok(Wrapped(Top, Save_Unit))
       /\ serialize_none => result' = Ok(Wrapped(Top, Save_Option(None)))

C25_Wrappers == []C25_Methods /\ [][C25_AtRoot]_vars

\* a Persist serializer has returned Some around the inner value's failure
C25_Witness ==
    /\ mode = "done"
    /\ entry = "serialize"
    /\ result = Ok(Save_Option(Some(Save_Error(Error("boom", FALSE)))))

(***************************************************************************)
(* A builder with the node n appended by the push in progress.             *)
(***************************************************************************)
Pushed(f, n) ==
    CASE f.pending = ElementSlot /\ f.kind \in ElementKinds ->
             [f EXCEPT !.inner = Append(@, n), !.pending = NoSlot]
      [] f.pending = ElementSlot /\ f.kind \in ValuesKinds ->
             [f EXCEPT !.values = Append(@, n), !.pending = NoSlot]
      [] f.pending = KeySlot -> [f EXCEPT !.keys = Append(@, n), !.pending = NoSlot]
      [] f.pending = ValueSlot -> [f EXCEPT !.values = Append(@, n), !.pending = NoSlot]
      [] OTHER -> [f EXCEPT !.fields = Append(@, <<f.pending.key, Some(n)>>),
                            !.pending = NoSlot]

\* the list `list`, emitted for a builder that was pushed a placeholder by the
\* push in progress of f, with the node n in the placeholder's position
Substituted(list, f, n) ==
    CASE f.pending = ElementSlot /\ f.kind \in ElementKinds ->
             [list EXCEPT ![Len(f.inner) + 1] = n]
      [] f.pending = ElementSlot /\ f.kind \in ValuesKinds ->
             [list EXCEPT ![Len(f.values) + 1] = n]
      [] f.pending = KeySlot -> [list EXCEPT ![Len(f.keys) + 1][1] = n]
      [] f.pending = ValueSlot -> [list EXCEPT ![Len(f.values) + 1][2] = n]
      [] OTHER -> [list EXCEPT ![Len(f.fields) + 1] = <<f.pending.key, Some(n)>>]

(***************************************************************************)
(* C26.  Persist, an aggregate nested in another.  When the nested         *)
(* builder ends, the enclosing builder records its node, whatever errors   *)
(* it holds, as one element at the end of the buffer of the push in        *)
(* progress and nothing else changes; and the enclosing builder's end()    *)
(* then emits what it would emit had the nested value been a unit, with    *)
(* the nested node in the unit's place: the same siblings and the same     *)
(* protocol-error entries of its own.                                      *)
(***************************************************************************)
C26_NestedEnd ==
    (/\ AnyEnd
     /\ Len(stack) = 2
     /\ stack[1].kind \in BuilderKinds
     /\ Persisting(Top))
    => LET node == EndOf(Top).v
           outer == stack[1]
       IN  /\ stack' = <<Pushed(outer, node)>>
           /\ mode' = "bld"
           /\ ret' = OkUnit
           /\ EmittedList(EndOf(Pushed(outer, node)).v)
                  = Substituted(EmittedList(EndOf(Pushed(outer, Save_Unit)).v), outer, node)

C26_Contained == [][C26_NestedEnd]_vars

\* a nested tuple holding its own length error is one element after its sibling
C26_Witness ==
    /\ mode = "bld"
    /\ Len(stack) = 1
    /\ Top.kind = "SerializeSeq"
    /\ Persisting(Top)
    /\ Len(Top.inner) = 2
    /\ Top.inner[1] = Save_Bool(TRUE)
    /\ Top.inner[2].k = "Tuple"
    /\ Len(Top.inner[2].items) = 1
    /\ Top.inner[2].items[1].k = "Error"

(***************************************************************************)
(* The messages of the protocol errors a struct builder's end() reports:   *)
(* those of the entries it adds, or the one it fails with.                 *)
(***************************************************************************)
StructErrors(f) ==
    IF EndOf(f).ok
    THEN [j \in DOMAIN Synthetic(f) |-> Synthetic(f)[j][2].v.e.msg]
    ELSE <<EndOf(f).e.msg>>

(***************************************************************************)
(* C27.  Struct and struct-variant builders, checking on.  skip_field adds *)
(* one entry.  When its name is already recorded, by a push or by a skip,  *)
(* end() reports the duplicate-name error; when no name repeats, end()     *)
(* reports a length error exactly when the declared length differs from    *)
(* the number of entries, skipped ones included, and the message gives     *)
(* that number.                                                            *)
(***************************************************************************)
C27_Skip ==
    ((struct_skip_field \/ struct_variant_skip_field) /\ Checking(Top))
    => LET f == stack'[Len(stack)]
           n == Len(Top.fields) + 1
       IN  /\ Len(f.fields) = n
           /\ ~f.fields[n][2].some
           /\ (\E j \in DOMAIN Top.fields : Top.fields[j][1] = f.fields[n][1])
              => /\ StructErrors(f) # <<>>
                 /\ StructErrors(f)[1] = DuplicateEntry(f)[2].v.e.msg
           /\ ~RepeatsName(f.fields)
              => StructErrors(f) =
                     IF f.expected_len # n
                     THEN <<"protocol error: expected a struct of length "
                            \o ToString(f.expected_len) \o ", got " \o ToString(n)>>
                     ELSE <<>>

C27_Example ==
    \A i \in Builders : LET f == stack[i] IN
        (/\ f.kind \in StructKinds
         /\ Checking(f)
         /\ f.expected_len = 1
         /\ Len(f.fields) = 2
         /\ f.fields[1][1] # f.fields[2][1]
         /\ f.fields[1][2].some
         /\ ~f.fields[2][2].some)
        => StructErrors(f) = <<"protocol error: expected a struct of length 1, got 2">>

C27_SkippedCount == []C27_Example /\ [][C27_Skip]_vars

\* declared 1, one pushed field and one skipped field with another name
C27_Witness ==
    /\ mode = "bld"
    /\ Top.kind = "SerializeStruct"
    /\ Checking(Top) /\ Persisting(Top)
    /\ Top.expected_len = 1
    /\ Top.fields = <<<<"a", Some(Save_Bool(TRUE))>>, <<"b", None>>>>
    /\ EndOf(Top).v.fields[3][2].v.e.msg
           = "protocol error: expected a struct of length 1, got 2"

\* a skipped field repeats the name of a pushed one
C27_WitnessRepeated ==
    /\ mode = "bld"
    /\ Top.kind = "SerializeStruct"
    /\ Checking(Top)
    /\ Top.fields = <<<<"a", Some(Save_Bool(TRUE))>>, <<"a", None>>>>

(***************************************************************************)
(* C28.  ShortCircuit.  A push whose child fails with e returns Err(e)     *)
(* and the builder is as it was before the push.  A producer may go on:    *)
(* the builder's end() is then that of the elements recorded, the failed   *)
(* child not among them, with the usual checks on their number.            *)
(***************************************************************************)
C28_FailedPush ==
    (producer_fails /\ stack # <<>> /\ Top.kind \in BuilderKinds /\ ~Persisting(Top))
    => /\ mode' = "bld"
       /\ \E msg \in Messages : ret' = Err(Error(msg, FALSE))
       /\ stack' = Append(Rest, [Top EXCEPT !.pending = NoSlot])

C28_Finish ==
    (AnyEnd /\ ~ret.ok /\ ~Persisting(Top) /\ Len(stack) = 1 /\ entry = "serialize")
    => /\ mode' = "done"
       /\ result' = EndOf(Top)
       /\ (/\ Checking(Top) => ~Violation(Top)
           /\ Top.kind = "SerializeMap" => Len(Top.keys) = Len(Top.values))
          => result' = Ok(Captured(Top))
       /\ (Checking(Top) /\ Violation(Top)) => (~result'.ok /\ result'.e.protocol)

C28_ShortCircuitPush == [][C28_FailedPush /\ C28_Finish]_vars

\* the push after Bool(true) has failed; end() gives the tuple struct of one value
C28_Witness ==
    /\ mode = "bld"
    /\ entry = "serialize"
    /\ Top.kind = "SerializeTupleStruct"
    /\ ~Persisting(Top)
    /\ ~ret.ok
    /\ Top.expected_len = 1
    /\ Top.values = <<Save_Bool(TRUE)>>
    /\ EndOf(Top) = Ok(Save_TupleStruct(Top.name, <<Save_Bool(TRUE)>>))

(***************************************************************************)
(* A tree with every Error node's protocol flag cleared.                   *)
(***************************************************************************)
RECURSIVE Unflagged(_)
UnflaggedOption(o) == IF o.some THEN Some(Unflagged(o.v)) ELSE None
Unflagged(n) ==
    CASE n.k = "Error" -> Save_Error(Error(n.e.msg, FALSE))
      [] n.k = "Option" -> Save_Option(UnflaggedOption(n.o))
      [] n.k \in {"NewTypeStruct", "NewTypeVariant"} ->
             [n EXCEPT !.value = Unflagged(n.value)]
      [] n.k \in {"Seq", "Tuple"} ->
             [n EXCEPT !.items = [i \in DOMAIN n.items |-> Unflagged(n.items[i])]]
      [] n.k \in {"TupleStruct", "TupleVariant"} ->
             [n EXCEPT !.values = [i \in DOMAIN n.values |-> Unflagged(n.values[i])]]
      [] n.k = "Map" ->
             [n EXCEPT !.pairs = [i \in DOMAIN n.pairs |->
                                     <<Unflagged(n.pairs[i][1]), Unflagged(n.pairs[i][2])>>]]
      [] n.k \in {"Struct", "StructVariant"} ->
             [n EXCEPT !.fields = [i \in DOMAIN n.fields |->
                                      <<n.fields[i][1], UnflaggedOption(n.fields[i][2])>>]]
      [] OTHER -> n

HasProtocolError(n) ==
    \E i \in DOMAIN LeafSeq(n) : IsProtocolErrorNode(LeafSeq(n)[i])
HasWideLeaf(n) ==
    \E i \in DOMAIN LeafSeq(n) : LeafSeq(n)[i].k \in {"I128", "U128"}

(***************************************************************************)
(* C29.  Re-capturing a tree (with no 128-bit leaf) under Persist: when    *)
(* the re-capture adds no protocol-error entry of its own (always so with  *)
(* checking off), the result is the tree with every Error node's protocol  *)
(* flag cleared, messages kept; so save_errors of a tree holding a         *)
(* protocol error is not equal to that tree.                               *)
(***************************************************************************)
C29_Recaptured ==
    (/\ mode = "done"
     /\ serializer.config.error_discipline = "Persist"
     /\ ~HasWideLeaf(stack[1].tree))
    => LET tree == stack[1].tree IN
       IF tree.k = "Error"
       THEN /\ entry = "serialize" => result = Err(Error(tree.e.msg, FALSE))
            /\ entry = "save_errors" => result = Save_Error(Error(tree.e.msg, FALSE))
       ELSE LET out == IF entry = "save_errors" THEN result ELSE result.v IN
            /\ entry = "serialize" => result.ok
            /\ (\/ ~serializer.config.protocol_errors
                \/ Len(LeafSeq(out)) = Len(LeafSeq(tree)))
               => out = Unflagged(tree)
            /\ \A i \in DOMAIN LeafSeq(out) :
                   LeafSeq(out)[i].k = "Error"
                   => \/ ~LeafSeq(out)[i].e.protocol
                      \/ /\ serializer.config.protocol_errors
                         /\ Len(LeafSeq(out)) > Len(LeafSeq(tree))

C29_NotIdempotent ==
    (mode = "done" /\ entry = "save_errors" /\ HasProtocolError(stack[1].tree))
    => ~Save_eq(result, stack[1].tree)

C29_ProtocolFlagLost == C29_Recaptured /\ C29_NotIdempotent

\* save_errors of a persisted tuple with its length error: the flag is cleared
C29_Witness ==
    /\ mode = "done"
    /\ entry = "save_errors"
    /\ stack[1].tree = Save_Tuple(<<Save_Bool(TRUE),
           Save_Error(Error("protocol error: expected a tuple of length 2, got 1", TRUE))>>)
    /\ result = Save_Tuple(<<Save_Bool(TRUE),
           Save_Error(Error("protocol error: expected a tuple of length 2, got 1", FALSE))>>)

(***************************************************************************)
(* fn check on its own: struct builders holding any list of up to          *)
(* MaxFields entries, pushed or skipped, under every configuration, whose  *)
(* producer calls end().                                                   *)
(***************************************************************************)
MaxFields == 4
FieldLists ==
    UNION {[1..n -> FieldNames \X {None, Some(Save_Unit)}] : n \in 0..MaxFields}

InitCheck ==
    /\ \E h, p \in BOOLEAN, E \in {"ShortCircuit", "Persist"} :
           serializer = Serializer(Config(h, p, E))
    /\ entry = "serialize"
    /\ \E expected_len \in 0..MaxFields, fields \in FieldLists :
           \/ stack = <<SerializeStruct(serializer.config, expected_len, "S", fields)>>
           \/ stack = <<SerializeStructVariant(serializer.config, expected_len,
                                               Variant("E", 0, "V"), fields)>>
    /\ mode = "bld"
    /\ ret = OkUnit
    /\ result = NoResult

NextCheck == struct_end \/ struct_variant_end
SpecCheck == InitCheck /\ [][NextCheck]_vars

Occurrences(names, x) == Cardinality({i \in DOMAIN names : names[i] = x})
NamesOf(fields) == [i \in DOMAIN fields |-> fields[i][1]]

(***************************************************************************)
(* C30.  Checking on, some field name recorded more than once.  end()      *)
(* reports "protocol error: struct has duplicate field names: " followed   *)
(* by the names at the positions where a name occurs again, in order,      *)
(* joined by ", ": a name recorded k times is listed k - 1 times.  Under   *)
(* Persist it is one "!error" entry right after the recorded ones, and the *)
(* only other entry end() may add is the length error; under ShortCircuit  *)
(* it is the error end() fails with.                                       *)
(***************************************************************************)
C30_End ==
    (mode = "bld" /\ Checking(Top) /\ RepeatsName(Top.fields))
    => LET f == Top
           dups == check_scan(f.fields, 1, {}, <<>>)
           msg == "protocol error: struct has duplicate field names: " \o CommaList(dups)
       IN  /\ dups = RepeatedFrom(f.fields, 1)
           /\ \A x \in FieldNames :
                  Occurrences(NamesOf(f.fields), x) >= 1
                  => Occurrences(dups, x) = Occurrences(NamesOf(f.fields), x) - 1
           /\ NamesOf(f.fields) = <<"a", "b", "a", "a">>
              => msg = "protocol error: struct has duplicate field names: a, a"
           /\ IF Persisting(f)
              THEN /\ EndOf(f).ok
                   /\ Len(Synthetic(f)) \in {1, 2}
                   /\ Synthetic(f)[1] = <<"!error", Some(Save_Error(Error(msg, TRUE)))>>
                   /\ Len(Synthetic(f)) = 2
                      => \E got \in 0..(MaxFields + 2) :
                             Synthetic(f)[2] =
                                 <<"!error",
                                   Some(Save_Error(Error(
                                       "protocol error: expected a struct of length "
                                       \o ToString(f.expected_len) \o ", got "
                                       \o ToString(got), TRUE)))>>
              ELSE EndOf(f) = Err(Error(msg, TRUE))
           /\ mode' = "done"
           /\ result' = EndOf(f)

C30_DuplicateMessage == [][C30_End]_vars

\* end() of fields a, b, a, a under Persist: the one entry added says "a, a"
C30_Witness ==
    /\ mode = "done"
    /\ result.ok
    /\ result.v.k = "Struct"
    /\ Len(result.v.fields) >= 5
    /\ SubSeq(NamesOf(result.v.fields), 1, 5) = <<"a", "b", "a", "a", "!error">>
    /\ result.v.fields[5][2].v.e.msg
           = "protocol error: struct has duplicate field names: a, a"

(***************************************************************************)
(* Struct builders and struct-variant builders side by side: the builder   *)
(* of the other kind holding the same configuration, declared length and   *)
(* entries.                                                                *)
(***************************************************************************)
AsStruct(f) ==
    [SerializeStruct(f.config, f.expected_len, "S", f.fields) EXCEPT !.pending = f.pending]
AsStructVariant(f) ==
    [SerializeStructVariant(f.config, f.expected_len, Variant("E", 0, "V"), f.fields)
         EXCEPT !.pending = f.pending]
\* what a struct's end() returned, as the struct variant `f` emits it
AsVariantResult(r, f) ==
    IF r.ok THEN Ok(Save_StructVariant(f.variant, r.v.fields)) ELSE r
ChildResults == {Ok(Save_Bool(TRUE)), Ok(Save_Unit), Err(custom("boom"))}
\* every message end() can put into an "!error" entry or fail with, for builder f
StructMessages(f) ==
    (IF RepeatsName(f.fields)
     THEN {"protocol error: struct has duplicate field names: "
               \o CommaList(RepeatedFrom(f.fields, 1))}
     ELSE {})
    \cup {LengthMessage("struct", f.expected_len, m) : m \in 0..(Len(f.fields) + 1)}

(***************************************************************************)
(* C31.  A struct builder and a struct-variant builder with the same       *)
(* configuration, declared length and recorded entries answer every        *)
(* serialize_field, skip_field and end call alike: the same return, the    *)
(* same entries afterwards, and at end() the same field list with the same *)
(* "!error" entries and messages, or the same failure; the messages use    *)
(* the label "struct" for both ("expected a struct of length N, got M").   *)
(* The emitted nodes differ only in being Struct{name} or                  *)
(* StructVariant{variant}.  Each skip_field and end step of a struct       *)
(* variant does what the struct of the same state does.                    *)
(***************************************************************************)
C31_SameAnswers ==
    \A i \in DOMAIN stack :
        stack[i].kind \in StructKinds
        => LET s == AsStruct(stack[i])
               v == AsStructVariant(stack[i])
               es == SerializeStruct_end(s)
               ev == SerializeStructVariant_end(v)
           IN  /\ \A key \in FieldNames, res \in ChildResults :
                      LET ps == SerializeStruct_serialize_field(s, key, res)
                          pv == SerializeStructVariant_serialize_field(v, key, res)
                      IN  ps.ret = pv.ret /\ ps.self.fields = pv.self.fields
               /\ \A key \in FieldNames :
                      LET ks == SerializeStruct_skip_field(s, key)
                          kv == SerializeStructVariant_skip_field(v, key)
                      IN  ks.ret = kv.ret /\ ks.self.fields = kv.self.fields
               /\ es.ok = ev.ok
               /\ es.ok => /\ es.v.k = "Struct" /\ es.v.name = s.name
                           /\ ev.v.k = "StructVariant" /\ ev.v.variant = v.variant
                           /\ es.v.fields = ev.v.fields
                           /\ IsPrefix(v.fields, ev.v.fields)
                           /\ \A j \in (Len(v.fields) + 1)..Len(ev.v.fields) :
                                  /\ ev.v.fields[j][1] = "!error"
                                  /\ ev.v.fields[j][2].some
                                  /\ ev.v.fields[j][2].v.k = "Error"
                                  /\ ev.v.fields[j][2].v.e.msg \in StructMessages(v)
               /\ ~es.ok => es = ev /\ ev.e.msg \in StructMessages(v)

C31_VariantStep ==
    /\ struct_variant_end
       => LET r == Return(AsVariantResult(SerializeStruct_end(AsStruct(Top)), Top),
                          Rest, entry)
          IN  /\ stack' = r.stack /\ mode' = r.mode
              /\ ret' = r.ret /\ result' = r.result
    /\ struct_variant_skip_field
       => \E key \in FieldNames :
              /\ stack' = Append(Rest, [Top EXCEPT !.fields =
                                   SerializeStruct_skip_field(AsStruct(Top), key).self.fields])
              /\ ret' = SerializeStruct_skip_field(AsStruct(Top), key).ret

C31_StructAndVariantAgree == []C31_SameAnswers /\ [][C31_VariantStep]_vars

\* a struct variant declared with 3 fields, one pushed and one skipped, has ended
\* under Persist: its length entry reads as a struct's
C31_Witness ==
    /\ mode = "done"
    /\ entry = "save_errors"
    /\ result.k = "StructVariant"
    /\ Len(result.fields) = 3
    /\ result.fields[1][2].some
    /\ ~result.fields[2][2].some
    /\ result.fields[3] =
           <<"!error",
             Some(ProtocolError("protocol error: expected a struct of length 3, got 2"))>>

(***************************************************************************)
(* Builders whose recorded state breaks the protocol twice.                *)
(***************************************************************************)
\* a struct or struct variant with a repeated name and a count other than declared
TwiceWrongStruct(f) ==
    /\ f.kind \in StructKinds
    /\ RepeatsName(f.fields)
    /\ f.expected_len # Len(f.fields)
\* a map with unequal numbers of keys and values, declared with a length that is
\* not the number of its keys or not the number of its values
TwiceWrongMap(f) ==
    /\ f.kind = "SerializeMap"
    /\ Len(f.keys) # Len(f.values)
    /\ f.expected_len.some
    /\ f.expected_len.v # Len(f.keys) \/ f.expected_len.v # Len(f.values)
DuplicateNamesError(f) ==
    Error("protocol error: struct has duplicate field names: "
          \o CommaList(RepeatedFrom(f.fields, 1)), TRUE)
KeysAndValuesError(f) ==
    Error("protocol error: map has " \o ToString(Len(f.keys)) \o " keys and "
          \o ToString(Len(f.values)) \o " values", TRUE)

(***************************************************************************)
(* C32.  ShortCircuit, checking on.  A struct or struct variant with both  *)
(* a repeated field name and a count other than the declared one fails at  *)
(* end() with the duplicate-name error, and a map with both unequal        *)
(* numbers of keys and values and a mismatching length hint fails with     *)
(* "protocol error: map has K keys and V values".  The end() step returns  *)
(* exactly that one error: it reaches the enclosing builder's producer, or *)
(* the caller, with nothing appended anywhere.                             *)
(***************************************************************************)
C32_EarlierCheck ==
    \A i \in Builders :
        LET f == stack[i] IN
        (~Persisting(f) /\ Checking(f))
        => /\ TwiceWrongStruct(f) => EndOf(f) = Err(DuplicateNamesError(f))
           /\ TwiceWrongMap(f) => EndOf(f) = Err(KeysAndValuesError(f))

C32_EndStep ==
    (mode = "bld" /\ ~Persisting(Top) /\ Checking(Top) /\ AnyEnd)
    => /\ TwiceWrongStruct(Top) => Carried(DuplicateNamesError(Top), Rest)
       /\ TwiceWrongMap(Top) => Carried(KeysAndValuesError(Top), Rest)

C32_FirstViolationWins == []C32_EarlierCheck /\ [][C32_EndStep]_vars

\* save has failed with the duplicate-name error of a struct that recorded a, b, a
C32_Witness ==
    /\ mode = "done"
    /\ entry = "save"
    /\ ~result.ok
    /\ result.e = Error("protocol error: struct has duplicate field names: a", TRUE)

(***************************************************************************)
(* examples/serde_valuable.rs: the one-way export of a Save tree to the    *)
(* reflection API.  OwnedValue, the Helper types of the Option, Struct and *)
(* StructVariant arms, and what their Enumerable::variant and              *)
(* Valuable::visit hand to the caller.                                     *)
(***************************************************************************)
OwnedValue_Bool(it) == [k |-> "Bool", b |-> it]
OwnedValue_Unit == [k |-> "Unit"]
OwnedValue_Error(it) == [k |-> "Error", e |-> it]
OwnedValue_Structable(it) == [k |-> "Structable", it |-> it]
OwnedValue_Enumerable(it) == [k |-> "Enumerable", it |-> it]

Fields_Unnamed(n) == [fields |-> "Unnamed", n |-> n]
Fields_Named(names) == [fields |-> "Named", names |-> names]
VariantDef_new(name, fields) == [name |-> name, fields |-> fields]
NamedField_new(name) == name
NamedValues_new(fields, values) == [fields |-> fields, values |-> values]

\* const NONE, const SOME of the Option arm
NONE == VariantDef_new("None", Fields_Unnamed(0))
SOME == VariantDef_new("Some", Fields_Unnamed(1))

OptionHelper(o) == [helper |-> "Option", o |-> o]
StructHelper(name, all, present, values) ==
    [helper |-> "Struct", name |-> name, all |-> all, present |-> present,
     values |-> values]
StructVariantHelper(name, variants, all, present, values) ==
    [helper |-> "StructVariant", name |-> name, variants |-> variants, all |-> all,
     present |-> present, values |-> values]

collect_fields(fields) == [i \in DOMAIN fields |-> NamedField_new(fields[i][1])]

\* impl From<Save<E>> for OwnedValue, the arms of the node kinds exported here
RECURSIVE OwnedValue_from(_)
OwnedValue_from(value) ==
    LET present_of(fields) == [i \in DOMAIN fields |-> NamedField_new(fields[i][1])]
        \* fields.into_iter().flat_map(|(_, it)| it.map(Into::into))
        values_of(fields) ==
            LET kept == SelectSeq(fields, LAMBDA f : f[2].some)
            IN  [i \in DOMAIN kept |-> OwnedValue_from(kept[i][2].v)]
    IN  CASE value.k = "Bool" -> OwnedValue_Bool(value.b)
          [] value.k = "Unit" -> OwnedValue_Unit
          [] value.k = "Error" -> OwnedValue_Error(value.e)
          [] value.k = "Option" ->
                 OwnedValue_Enumerable(OptionHelper(
                     IF value.o.some THEN Some(OwnedValue_from(value.o.v)) ELSE None))
          [] value.k = "Struct" ->
                 OwnedValue_Structable(StructHelper(
                     value.name, collect_fields(value.fields),
                     present_of(value.fields), values_of(value.fields)))
          [] value.k = "StructVariant" ->
                 OwnedValue_Enumerable(StructVariantHelper(
                     value.variant.name,
                     <<VariantDef_new(value.variant.variant,
                                      Fields_Named(<<NamedField_new("!missing")>>))>>,
                     collect_fields(value.fields),
                     present_of(value.fields), values_of(value.fields)))

\* impl Valuable for OwnedValue: as_value
OwnedValue_as_value(self) ==
    CASE self.k = "Bool" -> [value |-> "Bool", b |-> self.b]
      [] self.k = "Unit" -> [value |-> "Unit"]
      [] self.k = "Error" -> [value |-> "Error", e |-> self.e]
      [] self.k = "Structable" -> [value |-> "Structable", it |-> self.it]
      [] self.k = "Enumerable" -> [value |-> "Enumerable", it |-> self.it]

\* Enumerable::variant of the two Helper types that are enumerable
Helper_variant(self) ==
    CASE self.helper = "Option" ->
             IF self.o.some THEN [variant |-> "Static", def |-> SOME]
                            ELSE [variant |-> "Static", def |-> SOME]
      [] self.helper = "StructVariant" ->
             [variant |-> "Dynamic",
              def |-> VariantDef_new(self.variants[1].name, Fields_Named(self.all))]

\* Valuable::as_value and Valuable::visit of the Helper types: what the visitor is
\* called with
Helper_as_value(self) ==
    CASE self.helper = "Option" ->
             IF self.o.some THEN OwnedValue_as_value(self.o.v) ELSE [value |-> "Unit"]
      [] self.helper = "Struct" -> [value |-> "Structable", it |-> self]
      [] self.helper = "StructVariant" -> [value |-> "Enumerable", it |-> self]
Helper_visit(self) ==
    IF self.helper = "Option"
    THEN [call |-> "visit_value", value |-> Helper_as_value(self)]
    ELSE [call |-> "visit_named_fields",
          named_values |->
              NamedValues_new(self.present,
                              [i \in DOMAIN self.values |->
                                   OwnedValue_as_value(self.values[i])])]

(***************************************************************************)
(* The trees exported: leaves, options, and structs and struct variants of *)
(* up to MaxExportFields entries, present or skipped.                      *)
(***************************************************************************)
MaxExportFields == 2
ExportLeaves ==
    {Save_Bool(TRUE), Save_Unit, Save_Option(None), Save_Option(Some(Save_Bool(TRUE))),
     Save_Error(custom("boom"))}
ExportFieldLists ==
    UNION {[1..n -> {"a", "b"} \X ({None} \cup {Some(l) : l \in ExportLeaves})] :
               n \in 0..MaxExportFields}
ExportAggregates ==
    {Save_Struct("S", fields) : fields \in ExportFieldLists}
        \cup {Save_StructVariant(Variant("E", 0, "V"), fields) :
                  fields \in ExportFieldLists}
ExportTrees ==
    ExportLeaves \cup ExportAggregates
        \cup {Save_Option(Some(t)) : t \in ExportAggregates}

InitExport ==
    /\ serializer = new
    /\ entry = "none"
    /\ \E tree \in ExportTrees : stack = <<SaveValue(tree)>>
    /\ mode = "export"
    /\ ret = OkUnit
    /\ result = NoResult

\* OwnedValue::from(tree)
owned_value_from ==
    /\ mode = "export"
    /\ result' = OwnedValue_from(stack[1].tree)
    /\ mode' = "exported"
    /\ UNCHANGED <<serializer, entry, stack, ret>>

\* the consumer asks an enumerable for its current variant
helper_variant ==
    /\ mode = "exported"
    /\ result.k = "Enumerable"
    /\ ret' = [call |-> "variant", variant |-> Helper_variant(result.it)]
    /\ mode' = "observed"
    /\ UNCHANGED <<serializer, entry, stack, result>>

\* the consumer's visitor is handed to a structable or an enumerable
helper_visit ==
    /\ mode = "exported"
    /\ result.k \in {"Structable", "Enumerable"}
    /\ ret' = Helper_visit(result.it)
    /\ mode' = "observed"
    /\ UNCHANGED <<serializer, entry, stack, result>>

NextExport == owned_value_from \/ helper_variant \/ helper_visit
SpecExport == InitExport /\ [][NextExport]_vars

\* an export observed: the tree exported and what the consumer was given
Observed(call) == mode = "observed" /\ ret.call = call
Exported == stack[1].tree

(***************************************************************************)
(* C33.  The current variant an exported Option node reports is the one    *)
(* matching its content: "None" for Option(None), "Some" for               *)
(* Option(Some(x)).                                                        *)
(***************************************************************************)
C33_OptionVariant ==
    (Observed("variant") /\ Exported.k = "Option")
    => ret.variant.def.name = (IF Exported.o.some THEN "Some" ELSE "None")

(***************************************************************************)
(* C34.  Visiting an exported Struct or StructVariant node hands the       *)
(* visitor as many field names as values, and the value at each position   *)
(* is the exported value of the field named at that position, whether or   *)
(* not the node has skipped fields.                                        *)
(***************************************************************************)
C34_NamesLineUp ==
    (Observed("visit_named_fields") /\ Exported.k \in {"Struct", "StructVariant"})
    => LET nv == ret.named_values
           fields == Exported.fields
       IN  /\ Len(nv.fields) = Len(nv.values)
           /\ \A i \in DOMAIN nv.fields :
                  /\ nv.fields[i] = fields[i][1]
                  /\ fields[i][2].some
                  /\ nv.values[i] = OwnedValue_as_value(OwnedValue_from(fields[i][2].v))

====
